---- MODULE Spec2Model ----
(***************************************************************************)
(* The aggregation route of backend/server.js (POST /api/aggregate), the   *)
(* three provider adapters it fans out to (openAIService.js,               *)
(* anthropicService.js, googleAIService.js) and the lexical synthesis of   *)
(* backend/services/synthesisService.js.                                   *)
(*                                                                         *)
(* A text is the sequence of its whitespace-separated words; a word is a   *)
(* string, so word.length is Len(word).  JavaScript numbers are binary64   *)
(* values, computed with their rounding; NaN is the value of 0 / 0.        *)
(***************************************************************************)
EXTENDS Integers, Sequences, FiniteSets, TLC

VARIABLES
    pc,         \* where the route handler is: idle, waiting, done, rejected
    prompt,     \* req.body.prompt of the request being served
    adapter,    \* per provider: the adapter call: idle, running, returned
    upstream,   \* per provider: what the provider's API did for the call whose
                \* value settled the race (history of the adapter's input)
    results,    \* per provider: the Promise.race of adapter and timer
    response,   \* what res.json / res.status().json sent
    input,      \* the arguments of a function called on its own
    output,     \* what that call returned
    conversations,          \* App.jsx: the stored conversations, newest first
    currentConversationId,  \* App.jsx: the id of the selected conversation
    conversationHistory,    \* App.jsx: the messages on display
    loading,                \* App.jsx: a request to /api/aggregate is awaited
    view,                   \* App.jsx: the results and error on display
    pending                 \* App.jsx: what handleSubmit holds across its await

\* the state of the page
ui == <<conversations, currentConversationId, conversationHistory, loading,
        view, pending>>

vars == <<pc, prompt, adapter, upstream, results, response, input, output, ui>>

-----------------------------------------------------------------------------
(* Bounds of the model *)

MaxWords == 1

Vocabulary == {"ok", "Alpha", "alpha", "beta"}

Texts == UNION {[1..n -> Vocabulary] : n \in 0..MaxWords}

-----------------------------------------------------------------------------
(* JavaScript values *)

Undefined == [type |-> "undefined"]
Null == [type |-> "null"]
\* a value that is neither a string nor null/undefined and has no error field
\* (a number, an array, a plain object)
Other == [type |-> "object"]
Str(words) == [type |-> "string", words |-> words]

IsString(v) == v.type = "string"

\* v.error as a condition: only an error entry has a truthy error field
HasError(v) == "error" \in DOMAIN v /\ v.error

Providers == {"openai", "anthropic", "google"}

\* insertion order of the individualResponses object literal
ProviderOrder == <<"openai", "anthropic", "google">>

\* String.prototype.toLowerCase on a word or a piece of a word
toLowerCase(w) ==
    CASE w = "\"Alpha" -> "\"alpha"
      [] w = "(Claude)" -> "(claude)"
      [] w = "(GPT-3" -> "(gpt-3"
      [] w = "(GPT-3.5)" -> "(gpt-3.5)"
      [] w = "(Gemini)" -> "(gemini)"
      [] w = "AI" -> "ai"
      [] w = "API" -> "api"
      [] w = "Alpha" -> "alpha"
      [] w = "Analyzing" -> "analyzing"
      [] w = "Anthropic" -> "anthropic"
      [] w = "Claude" -> "claude"
      [] w = "Claude's" -> "claude's"
      [] w = "Enhanced" -> "enhanced"
      [] w = "GPT" -> "gpt"
      [] w = "GPT-3" -> "gpt-3"
      [] w = "GPT-3.5-turbo" -> "gpt-3.5-turbo"
      [] w = "GPT-3.5-turbo's" -> "gpt-3.5-turbo's"
      [] w = "Gemini" -> "gemini"
      [] w = "Gemini's" -> "gemini's"
      [] w = "Google" -> "google"
      [] w = "Google's" -> "google's"
      [] w = "In" -> "in"
      [] w = "Key" -> "key"
      [] w = "Looking" -> "looking"
      [] w = "Mock" -> "mock"
      [] w = "No" -> "no"
      [] w = "OpenAI" -> "openai"
      [] w = "Regarding" -> "regarding"
      [] w = "Response:" -> "response:"
      [] w = "The" -> "the"
      [] w = "This" -> "this"
      [] w = "To" -> "to"
      [] w = "Yes" -> "yes"
      [] OTHER -> w

\* word.split(/[.!?]+/): what is left of a word between its runs of ".", "!"
\* and "?"
Pieces(w) ==
    CASE w = "\"...\"" -> <<"\"", "\"">>
      [] w = "\"aaaaaaaaaaaaaaaaaaaaaaaaaaaaaa...\"" ->
            <<"\"aaaaaaaaaaaaaaaaaaaaaaaaaaaaaa", "\"">>
      [] w = "\"aaaaaaaaaaaaaaaaaaaaaaaaaaaaaaaaaaaaaaaa...\"" ->
            <<"\"aaaaaaaaaaaaaaaaaaaaaaaaaaaaaaaaaaaaaaaa", "\"">>
      [] w = "(GPT-3.5)" -> <<"(GPT-3", "5)">>
      [] w = "...\"" -> <<"", "\"">>
      [] w = ".env" -> <<"", "env">>
      [] w = "GPT-3.5-turbo" -> <<"GPT-3", "5-turbo">>
      [] w = "GPT-3.5-turbo's" -> <<"GPT-3", "5-turbo's">>
      [] w = "analysis." -> <<"analysis", "">>
      [] w = "approach." -> <<"approach", "">>
      [] w = "clarity." -> <<"clarity", "">>
      [] w = "configured." -> <<"configured", "">>
      [] w = "data." -> <<"data", "">>
      [] w = "examples." -> <<"examples", "">>
      [] w = "exceeded." -> <<"exceeded", "">>
      [] w = "failed." -> <<"failed", "">>
      [] w = "field." -> <<"field", "">>
      [] w = "file." -> <<"file", "">>
      [] w = "formatting." -> <<"formatting", "">>
      [] w = "gamma...\"" -> <<"gamma", "\"">>
      [] w = "guidance." -> <<"guidance", "">>
      [] w = "here." -> <<"here", "">>
      [] w = "interoperability." -> <<"interoperability", "">>
      [] w = "latency." -> <<"latency", "">>
      [] w = "latency?" -> <<"latency", "">>
      [] w = "ledgers." -> <<"ledgers", "">>
      [] w = "memory?" -> <<"memory", "">>
      [] w = "ok." -> <<"ok", "">>
      [] w = "provided." -> <<"provided", "">>
      [] w = "reached." -> <<"reached", "">>
      [] w = "recommendations." -> <<"recommendations", "">>
      [] w = "replica!" -> <<"replica", "">>
      [] w = "response." -> <<"response", "">>
      [] w = "restarts." -> <<"restarts", "">>
      [] w = "say." -> <<"say", "">>
      [] w = "services." -> <<"services", "">>
      [] w = "shard." -> <<"shard", "">>
      [] w = "small!" -> <<"small", "">>
      [] w = "steps." -> <<"steps", "">>
      [] w = "style." -> <<"style", "">>
      [] w = "today." -> <<"today", "">>
      [] w = "unavailable." -> <<"unavailable", "">>
      [] w = "uncertainties." -> <<"uncertainties", "">>
      [] w = "viewpoints." -> <<"viewpoints", "">>
      [] OTHER -> <<w>>

\* lowercased words and pieces of words with the keywords they contain
Occurrences ==
    {<<"acknowledges", "no">>, <<"best", "best">>,
     <<"consider", "consider">>, <<"considerations", "consider">>,
     <<"considerations,", "consider">>, <<"considering", "consider">>,
     <<"important", "important">>, <<"key", "key">>, <<"keyspace", "key">>,
     <<"know", "no">>, <<"no", "no">>, <<"normally", "no">>, <<"not", "no">>,
     <<"recommendations", "recommend">>, <<"recommendations.", "recommend">>,
     <<"should", "should">>, <<"shouldn't", "should">>,
     <<"shouldn't", "shouldn't">>, <<"suggestions", "suggest">>,
     <<"worst", "worst">>, <<"yes", "yes">>}

RECURSIVE SumLen(_)
SumLen(words) ==
    IF words = <<>> THEN 0 ELSE Len(Head(words)) + SumLen(Tail(words))

\* text.length: the words and the single spaces between them
TextLength(words) ==
    IF words = <<>> THEN 0 ELSE SumLen(words) + Len(words) - 1

\* seq.slice(0, n)
Prefix(words, n) == SubSeq(words, 1, IF n < Len(words) THEN n ELSE Len(words))

\* A string that is not taken apart into words is the sequence of its words,
\* or pieces of words, and of the spaces between them.
Space == " "

\* the words as one string, a space between them
Spaced(words) ==
    [i \in 1..(2 * Len(words) - 1) |->
        IF i % 2 = 1 THEN words[(i + 1) \div 2] ELSE Space]

\* string.trim()
Trim(string) ==
    LET from == IF string # <<>> /\ string[1] = Space THEN 2 ELSE 1
        to == IF string # <<>> /\ string[Len(string)] = Space
              THEN Len(string) - 1 ELSE Len(string)
    IN  SubSeq(string, from, to)

\* string.split(/\s+/) without the empty strings
WordsOf(string) == SelectSeq(string, LAMBDA t : t # Space)

\* string.toLowerCase().includes(keyword) for a keyword without a space
Includes(string, keyword) ==
    \E i \in 1..Len(string) : <<toLowerCase(string[i]), keyword>> \in Occurrences

RECURSIVE Concat(_)
\* the sequences of a sequence, one after the other
Concat(seqs) == IF seqs = <<>> THEN <<>> ELSE Head(seqs) \o Concat(Tail(seqs))

-----------------------------------------------------------------------------
(* JavaScript numbers: IEEE 754 binary64, round to nearest, ties to even.    *)
(* A finite number x >= 0 is the natural number x * 2^75 written in base 2^15 *)
(* with the least significant digit first: five digits of fraction and one    *)
(* of integer part.  Every number the synthesis computes is a multiple of     *)
(* 2^(-75) below 2^15, so the digits hold it exactly.  NaN is <<>>.           *)

\* bits of a digit
DigitBits == 15

Digit == 2^DigitBits

\* digits after the binary point
FractionDigits == 5

Digits == FractionDigits + 1

\* bits of the significand of a binary64 number
Precision == 53

NaN == <<>>
IsNaN(x) == x = <<>>

\* the number literal k, an integer from 0 to 2^15 - 1
Num(k) == [i \in 1..Digits |-> IF i = Digits THEN k ELSE 0]

Zero == Num(0)

\* 2^k as digits
PowerOfTwo(k) ==
    [i \in 1..Digits |-> IF i = (k \div DigitBits) + 1 THEN 2^(k % DigitBits) ELSE 0]

RECURSIVE AddFrom(_, _, _, _)
AddFrom(a, b, i, carry) ==
    IF i > Len(a) THEN <<>>
    ELSE LET s == a[i] + b[i] + carry
         IN  <<s % Digit>> \o AddFrom(a, b, i + 1, s \div Digit)

\* the exact sum
ExactSum(a, b) == AddFrom(a, b, 1, 0)

RECURSIVE TimesFrom(_, _, _, _)
TimesFrom(a, k, i, carry) ==
    IF i > Len(a) THEN <<>>
    ELSE LET s == a[i] * k + carry
         IN  <<s % Digit>> \o TimesFrom(a, k, i + 1, s \div Digit)

\* the exact product with an integer k from 0 to 2^15
ExactTimes(a, k) == TimesFrom(a, k, 1, 0)

RECURSIVE DivideFrom(_, _, _, _)
DivideFrom(a, k, i, rem) ==
    IF i = 0 THEN [quotient |-> <<>>, inexact |-> rem # 0]
    ELSE LET cur == rem * Digit + a[i]
             below == DivideFrom(a, k, i - 1, cur % k)
         IN  [quotient |-> below.quotient \o <<cur \div k>>,
              inexact |-> below.inexact]

\* the quotient by an integer k from 1 to 2^15, rounded down to a multiple of
\* 2^(-75), and whether anything was lost
ExactQuotient(a, k) == DivideFrom(a, k, Len(a), 0)

RECURSIVE GreaterOrEqualFrom(_, _, _)
GreaterOrEqualFrom(a, b, i) ==
    IF i = 0 THEN TRUE
    ELSE IF a[i] # b[i] THEN a[i] > b[i]
    ELSE GreaterOrEqualFrom(a, b, i - 1)

GreaterOrEqual(a, b) == GreaterOrEqualFrom(a, b, Len(a))

\* the number of bits of the digits' value: 0 for zero
BitLength(a) ==
    LET used == {i \in 1..Len(a) : a[i] # 0}
    IN  IF used = {} THEN 0
        ELSE LET top == CHOOSE i \in used : \A j \in used : j <= i
                 bits == CHOOSE n \in 1..DigitBits :
                             a[top] >= 2^(n - 1) /\ a[top] < 2^n
             IN  DigitBits * (top - 1) + bits

\* The binary64 number nearest to the value of the digits, or to a value just
\* above it when `inexact` says that a division left a remainder; ties go to
\* the even significand.
RoundToBinary64(a, inexact) ==
    IF BitLength(a) <= Precision THEN a
    ELSE LET drop == BitLength(a) - Precision
             whole == drop \div DigitBits
             part == drop % DigitBits
             low == [i \in 1..Len(a) |->
                        IF i <= whole THEN a[i]
                        ELSE IF i = whole + 1 THEN a[i] % (2^part)
                        ELSE 0]
             kept == [i \in 1..Len(a) |-> a[i] - low[i]]
             half == PowerOfTwo(drop - 1)
             odd == (a[whole + 1] \div (2^part)) % 2 = 1
             up == IF low = half THEN inexact \/ odd
                   ELSE GreaterOrEqual(low, half)
         IN  IF up THEN ExactSum(kept, PowerOfTwo(drop)) ELSE kept

\* n / d for integers 0 <= n < 2^15 and 0 <= d < 2^15; 0 / 0 is NaN
Ratio(n, d) ==
    IF d = 0 THEN NaN
    ELSE LET q == ExactQuotient(Num(n), d)
         IN  RoundToBinary64(q.quotient, q.inexact)

\* a + b
Plus(a, b) ==
    IF IsNaN(a) \/ IsNaN(b) THEN NaN
    ELSE RoundToBinary64(ExactSum(a, b), FALSE)

\* a / n for a count n; the sum of no numbers is 0 and 0 / 0 is NaN
Over(a, n) ==
    IF IsNaN(a) THEN NaN
    ELSE IF n = 0 THEN NaN
    ELSE LET q == ExactQuotient(a, n)
         IN  RoundToBinary64(q.quotient, q.inexact)

\* a > num / den, the right side a number literal such as 0.6; every
\* comparison with NaN is false
MoreThan(a, num, den) == ~IsNaN(a) /\ ~GreaterOrEqual(Ratio(num, den), a)

\* a >= num / den, the right side a number literal such as 0.7; every
\* comparison with NaN is false
AtLeast(a, num, den) == ~IsNaN(a) /\ GreaterOrEqual(a, Ratio(num, den))

\* Math.round(a * 100) for a >= 0: the product is a binary64 number, and
\* Math.round takes it to the nearest integer, a half going up;
\* Math.round(NaN) is NaN
RoundPercent(a) ==
    IF IsNaN(a) THEN NaN
    ELSE LET product == RoundToBinary64(ExactTimes(a, 100), FALSE)
         IN  Num(ExactSum(product, PowerOfTwo(DigitBits * FractionDigits - 1))[Digits])

-----------------------------------------------------------------------------
(* synthesisService.js *)

\* new Set(text.toLowerCase().split(/\s+/).filter(word => word.length > 2))
WordSet(words) ==
    {toLowerCase(words[i]) : i \in {j \in 1..Len(words) : Len(words[j]) > 2}}

\* (variant) the shared words are counted against the words of the first text
calculateTextSimilarityOverFirst(text1, text2) ==
    IF text1 = <<>> \/ text2 = <<>> THEN Zero
    ELSE LET words1 == WordSet(text1)
             words2 == WordSet(text2)
         IN  Ratio(Cardinality(words1 \cap words2), Cardinality(words1))

calculateTextSimilarity(text1, text2) ==
    IF text1 = <<>> \/ text2 = <<>> THEN Zero
    ELSE LET words1 == WordSet(text1)
             words2 == WordSet(text2)
             intersection == words1 \cap words2
             union == words1 \cup words2
         IN  Ratio(Cardinality(intersection), Cardinality(union))

\* source.charAt(0).toUpperCase() + source.slice(1)
Capitalize(source) ==
    CASE source = "openai" -> "Openai"
      [] source = "anthropic" -> "Anthropic"
      [] source = "google" -> "Google"

\* !response.error && typeof response === 'string'
IsValidResponse(resp) == ~HasError(resp) /\ IsString(resp)

\* (variant) the keys in alphabetical order
EntryKeysSorted(individualResponses) ==
    SelectSeq(<<"anthropic", "google", "openai">>,
              LAMBDA k : k \in DOMAIN individualResponses)

\* Object.entries(individualResponses): the keys in insertion order
EntryKeys(individualResponses) ==
    SelectSeq(ProviderOrder, LAMBDA k : k \in DOMAIN individualResponses)

RECURSIVE CollectValid(_, _)
CollectValid(keys, individualResponses) ==
    IF keys = <<>> THEN <<>>
    ELSE LET source == Head(keys)
             resp == individualResponses[source]
             rest == CollectValid(Tail(keys), individualResponses)
         IN  IF IsValidResponse(resp)
             THEN <<[source |-> Capitalize(source),
                     text |-> resp.words,
                     length |-> TextLength(resp.words)]>> \o rest
             ELSE rest

validResponsesOf(individualResponses) ==
    CollectValid(EntryKeys(individualResponses), individualResponses)

\* the pairs (i, j), i < j, in the order of the two nested loops
RECURSIVE PairsFrom(_, _, _)
PairsFrom(i, j, n) ==
    IF i >= n THEN <<>>
    ELSE IF j > n THEN PairsFrom(i + 1, i + 2, n)
    ELSE <<(<<i, j>>)>> \o PairsFrom(i, j + 1, n)

similaritiesOf(validResponses) ==
    LET pairs == PairsFrom(1, 2, Len(validResponses))
    IN  [k \in 1..Len(pairs) |->
            calculateTextSimilarity(validResponses[pairs[k][1]].text,
                                    validResponses[pairs[k][2]].text)]

RECURSIVE SumOf(_)
\* similarities.reduce((a, b) => a + b, 0)
SumOf(similarities) ==
    IF similarities = <<>> THEN Zero
    ELSE Plus(SumOf(SubSeq(similarities, 1, Len(similarities) - 1)),
              similarities[Len(similarities)])

avgSimilarityOf(similarities) == Over(SumOf(similarities), Len(similarities))

\* (variant) only the first valid response is reported as a source
sourcesOfFirst(validResponses) == <<validResponses[1].source>>

sourcesOf(validResponses) ==
    [i \in 1..Len(validResponses) |-> validResponses[i].source]

NoValidResult ==
    [confidence |-> "No Valid Responses",
     confidenceScore |-> Num(0),
     synthesizedAnswer |-> "All AI services failed to provide valid responses.",
     approach |-> "error",
     sourcesUsed |-> <<>>,
     reasoning |-> "No successful responses received"]

\* (variant) the source reported is the first registered provider
SingleResultFirstProvider(validResponses) ==
    [confidence |-> "Single Source",
     confidenceScore |-> Num(50),
     synthesizedAnswer |-> validResponses[1].text,
     approach |-> "single",
     sourcesUsed |-> <<Capitalize(ProviderOrder[1])>>,
     reasoning |-> "Only one AI service provided a valid response"]

SingleResult(validResponses) ==
    [confidence |-> "Single Source",
     confidenceScore |-> Num(50),
     synthesizedAnswer |-> validResponses[1].text,
     approach |-> "single",
     sourcesUsed |-> <<validResponses[1].source>>,
     reasoning |-> "Only one AI service provided a valid response"]

RECURSIVE SplitFrom(_, _, _)
\* text.split(/[.!?]+/) from the i-th word on, `current` being the string since
\* the last run of ".", "!" and "?"
SplitFrom(words, i, current) ==
    IF i > Len(words) THEN <<current>>
    ELSE LET spaced == IF i > 1 THEN Append(current, Space) ELSE current
             pieces == Pieces(words[i])
             first == IF pieces[1] = "" THEN spaced
                      ELSE Append(spaced, pieces[1])
             last == pieces[Len(pieces)]
         IN  IF Len(pieces) = 1 THEN SplitFrom(words, i + 1, first)
             ELSE <<first>>
                  \o [j \in 1..(Len(pieces) - 2) |-> <<pieces[j + 1]>>]
                  \o SplitFrom(words, i + 1,
                               IF last = "" THEN <<>> ELSE <<last>>)

splitIntoSentences(text) ==
    SelectSeq(SplitFrom(text, 1, <<>>), LAMBDA s : SumLen(Trim(s)) > 10)

Indicators ==
    <<"recommend", "suggest", "important", "key", "should", "best", "main",
      "first", "consider">>

\* (variant) the length is that of the trimmed sentence
extractKeyPointsTrimmed(text) ==
    LET sentences == splitIntoSentences(text)
        hasIndicator(sentence) ==
            \E k \in 1..Len(Indicators) : Includes(sentence, Indicators[k])
        keyPoints == SelectSeq(sentences,
                               LAMBDA sentence :
                                   /\ hasIndicator(sentence)
                                   /\ SumLen(Trim(sentence)) > 30
                                   /\ SumLen(Trim(sentence)) < 200)
    IN  Prefix([i \in 1..Len(keyPoints) |-> Trim(keyPoints[i])], 3)

extractKeyPoints(text) ==
    LET sentences == splitIntoSentences(text)
        hasIndicator(sentence) ==
            \E k \in 1..Len(Indicators) : Includes(sentence, Indicators[k])
        keyPoints == SelectSeq(sentences,
                               LAMBDA sentence :
                                   /\ hasIndicator(sentence)
                                   /\ SumLen(sentence) > 30
                                   /\ SumLen(sentence) < 200)
    IN  Prefix([i \in 1..Len(keyPoints) |-> Trim(keyPoints[i])], 3)

\* `${response.source}: ${sentence.trim()}`
Detail(source, sentence) == <<source \o ":", Space>> \o Trim(sentence)

extractUniqueDetails(baseResponse, allResponses) ==
    LET baseSentences == splitIntoSentences(baseResponse.text)
        isUnique(sentence) ==
            ~\E k \in 1..Len(baseSentences) :
                MoreThan(calculateTextSimilarity(WordsOf(sentence),
                                                 WordsOf(baseSentences[k])),
                         7, 10)
        detailsOf(aResponse) ==
            IF aResponse.source = baseResponse.source THEN <<>>
            ELSE LET kept == SelectSeq(splitIntoSentences(aResponse.text),
                                       LAMBDA sentence :
                                           /\ isUnique(sentence)
                                           /\ SumLen(sentence) > 20
                                           /\ SumLen(sentence) < 150)
                 IN  [i \in 1..Len(kept) |-> Detail(aResponse.source, kept[i])]
    IN  Prefix(Concat([r \in 1..Len(allResponses) |-> detailsOf(allResponses[r])]),
               3)

RECURSIVE ThemesFromKeepingSimilar(_, _, _, _)
\* (variant) the sentences similar to a theme are not marked as processed
ThemesFromKeepingSimilar(allSentences, i, processedSentences, themes) ==
    IF i > Len(allSentences) THEN themes
    ELSE IF allSentences[i].text \in processedSentences
    THEN ThemesFromKeepingSimilar(allSentences, i + 1, processedSentences,
                                  themes)
    ELSE LET sentence == allSentences[i]
             similar ==
                 {j \in 1..Len(allSentences) :
                      /\ allSentences[j].source # sentence.source
                      /\ MoreThan(calculateTextSimilarity(
                                      WordsOf(sentence.text),
                                      WordsOf(allSentences[j].text)),
                                  6, 10)}
         IN  IF similar = {}
             THEN ThemesFromKeepingSimilar(allSentences, i + 1,
                                           processedSentences, themes)
             ELSE ThemesFromKeepingSimilar(allSentences, i + 1,
                                           processedSentences
                                               \cup {sentence.text},
                                           Append(themes, Trim(sentence.text)))

RECURSIVE ThemesFrom(_, _, _, _)
\* the forEach of findCommonThemes from the i-th sentence on
ThemesFrom(allSentences, i, processedSentences, themes) ==
    IF i > Len(allSentences) THEN themes
    ELSE IF allSentences[i].text \in processedSentences
    THEN ThemesFrom(allSentences, i + 1, processedSentences, themes)
    ELSE LET sentence == allSentences[i]
             similar ==
                 {j \in 1..Len(allSentences) :
                      /\ allSentences[j].source # sentence.source
                      /\ MoreThan(calculateTextSimilarity(
                                      WordsOf(sentence.text),
                                      WordsOf(allSentences[j].text)),
                                  6, 10)}
         IN  IF similar = {}
             THEN ThemesFrom(allSentences, i + 1, processedSentences, themes)
             ELSE ThemesFrom(allSentences, i + 1,
                             processedSentences \cup {sentence.text}
                                 \cup {allSentences[j].text : j \in similar},
                             Append(themes, Trim(sentence.text)))

\* responses.flatMap(r => splitIntoSentences(r.text).map(s =>
\*     ({ text: s, source: r.source })))
allSentencesOf(responses) ==
    LET sentencesOf(aResponse) ==
            LET sentences == splitIntoSentences(aResponse.text)
            IN  [i \in 1..Len(sentences) |->
                    [text |-> sentences[i], source |-> aResponse.source]]
    IN  Concat([r \in 1..Len(responses) |-> sentencesOf(responses[r])])

findCommonThemes(responses) ==
    Prefix(ThemesFrom(allSentencesOf(responses), 1, {}, <<>>), 4)

contrastPairs ==
    << <<"yes", "no">>, <<"should", "shouldn't">>, <<"good", "bad">>,
       <<"recommend", "avoid">>, <<"best", "worst">>,
       <<"increase", "decrease">>, <<"positive", "negative">>,
       <<"agree", "disagree">>, <<"support", "oppose">> >>

\* sources.join(', ') as words
JoinComma(sources) ==
    [i \in 1..Len(sources) |->
        IF i < Len(sources) THEN sources[i] \o "," ELSE sources[i]]

\* the sources of the responses whose text has the keyword
SourcesWith(responses, keyword) ==
    LET has == SelectSeq(responses, LAMBDA r : Includes(r.text, keyword))
    IN  [i \in 1..Len(has) |-> has[i].source]

\* `${...} lean towards "${word1}" while ${...} suggest "${word2}"`
Disagreement(responses, pair) ==
    Spaced(JoinComma(SourcesWith(responses, pair[1]))
           \o <<"lean", "towards", "\"" \o pair[1] \o "\"", "while">>
           \o JoinComma(SourcesWith(responses, pair[2]))
           \o <<"suggest", "\"" \o pair[2] \o "\"">>)

\* (variant) the two keywords have to be in the texts of two responses
findDisagreementsOfTwo(responses) ==
    LET found == SelectSeq(contrastPairs,
                           LAMBDA pair :
                               \E a, b \in 1..Len(responses) :
                                   /\ a # b
                                   /\ Includes(responses[a].text, pair[1])
                                   /\ Includes(responses[b].text, pair[2]))
    IN  Prefix([i \in 1..Len(found) |-> Disagreement(responses, found[i])], 2)

findDisagreements(responses) ==
    LET found == SelectSeq(contrastPairs,
                           LAMBDA pair :
                               /\ SourcesWith(responses, pair[1]) # <<>>
                               /\ SourcesWith(responses, pair[2]) # <<>>)
    IN  Prefix([i \in 1..Len(found) |-> Disagreement(responses, found[i])], 2)

\* The synthesized text is the sequence of its lines, a line being what a "\n"
\* ends or what is left after the last "\n".
TextLine(string) == [kind |-> "text", string |-> string]
Heading(text) == [kind |-> "heading", text |-> text]
Bullet(string) == [kind |-> "bullet", string |-> string]
Blank == [kind |-> "blank"]

Bullets(strings) == [i \in 1..Len(strings) |-> Bullet(strings[i])]

RECURSIVE LongestOrLastFrom(_, _, _)
\* (variant) of the responses of the greatest length the last one is taken
LongestOrLastFrom(validResponses, i, longest) ==
    IF i > Len(validResponses) THEN longest
    ELSE LongestOrLastFrom(validResponses, i + 1,
                           IF validResponses[i].length >= longest.length
                           THEN validResponses[i] ELSE longest)

RECURSIVE LongestFrom(_, _, _)
\* validResponses.reduce((longest, current) =>
\*     current.length > longest.length ? current : longest)
LongestFrom(validResponses, i, longest) ==
    IF i > Len(validResponses) THEN longest
    ELSE LongestFrom(validResponses, i + 1,
                     IF validResponses[i].length > longest.length
                     THEN validResponses[i] ELSE longest)

consensusText(validResponses) ==
    LET baseResponse == LongestFrom(validResponses, 2, validResponses[1])
        uniqueDetails == extractUniqueDetails(baseResponse, validResponses)
    IN  <<TextLine(Spaced(baseResponse.text))>>
        \o (IF Len(uniqueDetails) > 0
            THEN <<Blank, Heading("**Additional insights:**")>>
                 \o Bullets(uniqueDetails)
            ELSE <<>>)

balancedText(validResponses) ==
    LET commonThemes == findCommonThemes(validResponses)
        disagreements == findDisagreements(validResponses)
    IN  <<Heading("**Based on multiple AI perspectives:**"), Blank>>
        \o (IF Len(commonThemes) > 0
            THEN <<Heading("**Common insights:**")>> \o Bullets(commonThemes)
            ELSE <<>>)
        \o (IF Len(disagreements) > 0
            THEN <<Blank, Heading("**Different perspectives:**")>>
                 \o Bullets(disagreements)
            ELSE <<>>)

\* the section of one response in the comparative text
approachOf(aResponse) ==
    LET keyPoints == extractKeyPoints(aResponse.text)
        sentences == splitIntoSentences(aResponse.text)
    IN  <<Heading("**" \o aResponse.source \o " approach:**")>>
        \o (IF Len(keyPoints) > 0 THEN Bullets(keyPoints)
            ELSE IF Len(sentences) > 0 THEN <<Bullet(sentences[1])>>
            ELSE <<>>)
        \o <<Blank>>

comparativeText(validResponses) ==
    <<Heading("**Different AI models suggest distinct approaches:**"), Blank>>
    \o Concat([r \in 1..Len(validResponses) |-> approachOf(validResponses[r])])
    \o <<Heading("**Recommendation:** Consider combining elements from multiple approaches based on your specific context.")>>

\* The result for two or more valid responses, the branch taken for the
\* similarity `deciding`.
ResultFor(validResponses, avgSimilarity, deciding) ==
    IF AtLeast(deciding, 7, 10)
    THEN [confidence |-> "High Confidence",
          confidenceScore |-> RoundPercent(avgSimilarity),
          synthesizedAnswer |-> consensusText(validResponses),
          approach |-> "consensus",
          sourcesUsed |-> sourcesOf(validResponses),
          reasoning |-> <<Len(validResponses),
                          "models provided similar answers",
                          RoundPercent(avgSimilarity), "% agreement">>]
    ELSE IF AtLeast(deciding, 3, 10)
    THEN [confidence |-> "Multiple Perspectives",
          confidenceScore |-> RoundPercent(avgSimilarity),
          synthesizedAnswer |-> balancedText(validResponses),
          approach |-> "balanced",
          sourcesUsed |-> sourcesOf(validResponses),
          reasoning |-> <<"Models showed", RoundPercent(avgSimilarity),
                          "% agreement with notable differences">>]
    ELSE [confidence |-> "Diverse Approaches",
          confidenceScore |-> RoundPercent(avgSimilarity),
          synthesizedAnswer |-> comparativeText(validResponses),
          approach |-> "comparative",
          sourcesUsed |-> sourcesOf(validResponses),
          reasoning |-> <<"Models provided significantly different approaches",
                          RoundPercent(avgSimilarity), "% agreement">>]

\* (variant) the tier is decided by the similarity of the first pair
MultiResultByFirstPair(validResponses) ==
    ResultFor(validResponses,
              avgSimilarityOf(similaritiesOf(validResponses)),
              IF Len(validResponses) < 2 THEN NaN
              ELSE similaritiesOf(validResponses)[1])

MultiResult(validResponses) ==
    LET avgSimilarity == avgSimilarityOf(similaritiesOf(validResponses))
    IN  ResultFor(validResponses, avgSimilarity, avgSimilarity)

\* (variant) without the early return for no valid response
synthesizeResponsesNoZeroCase(individualResponses) ==
    LET validResponses == validResponsesOf(individualResponses)
    IN  IF Len(validResponses) = 1 THEN SingleResult(validResponses)
        ELSE MultiResult(validResponses)

synthesizeResponses(individualResponses) ==
    LET validResponses == validResponsesOf(individualResponses)
    IN  IF Len(validResponses) = 0 THEN NoValidResult
        ELSE IF Len(validResponses) = 1 THEN SingleResult(validResponses)
        ELSE MultiResult(validResponses)

-----------------------------------------------------------------------------
(* The request *)

MaxPromptLength == 2000

\* a string prompt: its length, the length of prompt.trim(), and the words of
\* `"${prompt.substring(0, 30)}..."` and `"${prompt.substring(0, 40)}..."`
PromptString(length, trimLength, sub30, sub40) ==
    [type |-> "string", length |-> length, trimLength |-> trimLength,
     sub30 |-> sub30, sub40 |-> sub40]

A30 == "\"aaaaaaaaaaaaaaaaaaaaaaaaaaaaaa...\""
A40 == "\"aaaaaaaaaaaaaaaaaaaaaaaaaaaaaaaaaaaaaaaa...\""

Prompts ==
    { Undefined,                                           \* no prompt in the body
      PromptString(0, 0, <<"\"...\"">>, <<"\"...\"">>),     \* ""
      PromptString(3, 0, <<"\"", "...\"">>, <<"\"", "...\"">>),  \* "   "
      PromptString(16, 16, <<"\"Alpha", "beta", "gamma...\"">>,
                           <<"\"Alpha", "beta", "gamma...\"">>),
      PromptString(MaxPromptLength, MaxPromptLength, <<A30>>, <<A40>>),
      PromptString(MaxPromptLength + 1, MaxPromptLength + 1, <<A30>>, <<A40>>) }

\* (variant) the prompt is not trimmed before its length is tested
PromptIsEmptyNoTrim(p) ==
    \/ p.type = "undefined"
    \/ p.length = 0

\* !prompt || prompt.trim().length === 0
PromptIsEmpty(p) ==
    \/ p.type = "undefined"
    \/ p.length = 0
    \/ p.trimLength = 0

\* prompt.length > 2000
PromptIsTooLong(p) == p.length > MaxPromptLength

-----------------------------------------------------------------------------
(* What a provider's API can do for one call *)

\* the value found where the text is expected in the payload
Contents == {Str(t) : t \in Texts} \cup {Undefined, Null, Other}

UpstreamOpenAI ==
    {[kind |-> "nokey"], [kind |-> "malformed"], [kind |-> "network"]}
    \cup {[kind |-> "ok", content |-> c] : c \in Contents}
    \cup {[kind |-> "http", status |-> st] : st \in {401, 429, 500}}

UpstreamAnthropic ==
    {[kind |-> "nokey"], [kind |-> "malformed"], [kind |-> "network"]}
    \cup {[kind |-> "ok", content |-> c] : c \in Contents}
    \cup {[kind |-> "http", status |-> st] : st \in {400, 401, 500}}

\* what the fallback model's request does after a 404
FallbackOutcomes ==
    {[kind |-> "error"]} \cup {[kind |-> "ok", content |-> c] : c \in Contents}

UpstreamGoogle ==
    {[kind |-> "nokey"], [kind |-> "nocandidates"], [kind |-> "safety"],
     [kind |-> "emptycontent"], [kind |-> "network"]}
    \cup {[kind |-> "ok", content |-> c] : c \in Contents}
    \cup {[kind |-> "http", status |-> st] : st \in {401, 403, 500}}
    \cup {[kind |-> "http", status |-> 404, fallback |-> f] : f \in FallbackOutcomes}

UpstreamOf(provider) ==
    CASE provider = "openai" -> UpstreamOpenAI
      [] provider = "anthropic" -> UpstreamAnthropic
      [] provider = "google" -> UpstreamGoogle

-----------------------------------------------------------------------------
(* openAIService.js *)

getMockOpenAIResponse(p) ==
    Str(<<"Mock", "OpenAI", "(GPT-3.5)", "response:", "This", "is", "a",
          "simulated", "response", "to">>
        \o p.sub30
        \o <<"-", "In", "a", "real", "implementation,", "GPT", "would",
             "provide", "detailed", "analysis", "and", "suggestions", "based",
             "on", "its", "training", "data.">>)

getEnhancedMockResponseOpenAI(p) ==
    Str(<<"Enhanced", "OpenAI", "Response:", "Regarding">>
        \o p.sub40
        \o <<"-", "This", "would", "typically", "involve", "analyzing", "the",
             "query,", "considering", "multiple", "perspectives,", "and",
             "providing", "structured", "recommendations.", "Key",
             "considerations", "would", "include", "practical",
             "implementation,", "potential", "challenges,", "and", "best",
             "practices", "in", "the", "field.">>)

\* content.length throws a TypeError when content is null or undefined
LengthThrows(content) == content.type \in {"undefined", "null"}

getOpenAIResponse(p, u) ==
    IF u.kind = "nokey" THEN getMockOpenAIResponse(p)
    ELSE IF u.kind = "ok" /\ ~LengthThrows(u.content) THEN u.content
    ELSE getEnhancedMockResponseOpenAI(p)

(* anthropicService.js *)

getMockAnthropicResponse(p) ==
    Str(<<"Mock", "Anthropic", "(Claude)", "response:", "This", "is", "a",
          "simulated", "response", "to">>
        \o p.sub30
        \o <<"-", "Claude", "would", "typically", "provide", "thoughtful",
             "analysis", "with", "attention", "to", "nuance,", "safety",
             "considerations,", "and", "helpful", "step-by-step",
             "guidance.">>)

getEnhancedMockResponseAnthropic(p) ==
    Str(<<"Enhanced", "Anthropic", "Response:", "Looking", "at">>
        \o p.sub40
        \o <<"-", "This", "response", "would", "emphasize", "careful",
             "reasoning,", "ethical", "considerations,", "and", "practical",
             "implementation", "steps.", "Claude", "typically", "provides",
             "balanced", "perspectives", "and", "acknowledges", "potential",
             "limitations", "or", "uncertainties.">>)

getAnthropicResponse(p, u) ==
    IF u.kind = "nokey" THEN getMockAnthropicResponse(p)
    ELSE IF u.kind = "ok" /\ ~LengthThrows(u.content) THEN u.content
    ELSE getEnhancedMockResponseAnthropic(p)

(* googleAIService.js *)

getMockGoogleResponse(p) ==
    Str(<<"Mock", "Google", "AI", "(Gemini)", "response:", "This", "is", "a",
          "simulated", "response", "to">>
        \o p.sub30
        \o <<"-", "Gemini", "would", "typically", "provide", "comprehensive",
             "information", "with", "factual", "accuracy", "and",
             "structured", "formatting.">>)

getEnhancedMockResponseGoogle(p) ==
    Str(<<"Enhanced", "Google", "Response:", "Analyzing">>
        \o p.sub40
        \o <<"-", "This", "would", "include", "comprehensive",
             "research-backed", "information,", "structured", "data",
             "presentation,", "and", "multiple", "viewpoints.", "Google's",
             "AI", "typically", "excels", "at", "factual", "accuracy", "and",
             "providing", "detailed", "explanations", "with", "examples.">>)

\* the value as a condition: "", null and undefined are falsy
Truthy(v) ==
    /\ v.type \notin {"undefined", "null"}
    /\ (IsString(v) => v.words # <<>>)

tryFallbackModel(p, f) ==
    IF f.kind = "ok" /\ Truthy(f.content) THEN f.content
    ELSE getEnhancedMockResponseGoogle(p)

getGoogleAIResponse(p, u) ==
    IF u.kind = "nokey" THEN getMockGoogleResponse(p)
    ELSE IF u.kind = "ok" /\ ~LengthThrows(u.content) THEN u.content
    ELSE IF u.kind = "http" /\ u.status = 404 THEN tryFallbackModel(p, u.fallback)
    ELSE getEnhancedMockResponseGoogle(p)

\* the adapter the route calls for each provider
AdapterValue(provider, p, u) ==
    CASE provider = "openai" -> getOpenAIResponse(p, u)
      [] provider = "anthropic" -> getAnthropicResponse(p, u)
      [] provider = "google" -> getGoogleAIResponse(p, u)

-----------------------------------------------------------------------------
(* server.js: POST /api/aggregate *)

\* new Error('OpenAI timeout'), ...
TimeoutMessage(provider) ==
    CASE provider = "openai" -> "OpenAI timeout"
      [] provider = "anthropic" -> "Anthropic timeout"
      [] provider = "google" -> "Google AI timeout"

CallFailedMessage(provider) ==
    CASE provider = "openai" -> "OpenAI call failed"
      [] provider = "anthropic" -> "Anthropic call failed"
      [] provider = "google" -> "Google AI call failed"

SourceName(provider) ==
    CASE provider = "openai" -> "OpenAI"
      [] provider = "anthropic" -> "Anthropic"
      [] provider = "google" -> "Google"

Pending == [status |-> "pending"]
Fulfilled(value) == [status |-> "fulfilled", value |-> value]
Rejected(message) == [status |-> "rejected", reason |-> [message |-> message]]

\* (variant) the last settlement stands
RaceSettleLast(race, outcome) == outcome

\* (variant) a value that comes after the timer replaces the rejection
RaceSettleValueWins(race, outcome) ==
    IF race.status = "pending" \/ outcome.status = "fulfilled"
    THEN outcome ELSE race

\* Promise.race: the first settlement stands, later ones are ignored
RaceSettle(race, outcome) ==
    IF race.status = "pending" THEN outcome ELSE race

\* (variant) resolved as soon as one member is settled
AnySettled(res) == \E provider \in Providers : res[provider].status # "pending"

\* (variant) resolved only when every member is fulfilled
AllFulfilled(res) == \A provider \in Providers : res[provider].status = "fulfilled"

\* Promise.allSettled resolves when no member is pending any more
AllSettled(res) == \A provider \in Providers : res[provider].status # "pending"

\* (variant) the rejection's message is recorded as the provider's text
EntryOfMessageText(provider, result) ==
    IF result.status = "fulfilled" THEN result.value
    ELSE Str(<<SourceName(provider), "timeout">>)

\* results[i].status === 'fulfilled' ? results[i].value
\*   : { error: true, message: results[i].reason?.message || '... call failed', source }
EntryOf(provider, result) ==
    IF result.status = "fulfilled" THEN result.value
    ELSE [type |-> "object",
          error |-> TRUE,
          message |-> IF "reason" \in DOMAIN result
                      THEN result.reason.message
                      ELSE CallFailedMessage(provider),
          source |-> SourceName(provider)]

individualResponsesOf(res) ==
    [provider \in Providers |-> EntryOf(provider, res[provider])]

NoResponse == [sent |-> FALSE]

\* no function is called on its own while the route serves a request
NoCall == [called |-> FALSE]

BadRequest(message) == [sent |-> TRUE, status |-> 400, error |-> message]

AggregateResponse(p, res) ==
    LET individualResponses == individualResponsesOf(res)
        synthesis == synthesizeResponses(individualResponses)
    IN  [sent |-> TRUE,
         status |-> 200,
         prompt |-> p,
         synthesis |-> synthesis,
         individualResponses |-> individualResponses,
         metadata |-> [totalSources |-> Cardinality(DOMAIN individualResponses),
                       successfulSources |-> Len(synthesis.sourcesUsed)]]

\* The ids are Date.now().toString(): here the numbers 1, 2, ... in the order
\* of creation, and 0 for the null of a page without conversation.
NoId == 0

NoResults == "null"
NoError == ""
NoRequest == [active |-> FALSE]

\* the page is not open
NoPage ==
    /\ conversations = <<>>
    /\ currentConversationId = NoId
    /\ conversationHistory = <<>>
    /\ loading = FALSE
    /\ view = [results |-> NoResults, error |-> NoError]
    /\ pending = NoRequest

Init ==
    /\ pc = "idle"
    /\ prompt = Undefined
    /\ adapter = [provider \in Providers |-> "idle"]
    /\ upstream = [provider \in Providers |-> [kind |-> "none"]]
    /\ results = [provider \in Providers |-> [status |-> "none"]]
    /\ response = NoResponse
    /\ input = NoCall
    /\ output = NoCall
    /\ NoPage

\* The handler from its entry to the await: the two validations, then the three
\* adapter calls and their timers are started.
Receive(p) ==
    /\ pc = "idle"
    /\ prompt' = p
    /\ IF PromptIsEmpty(p)
       THEN /\ pc' = "rejected"
            /\ response' = BadRequest("Prompt is required and cannot be empty")
            /\ UNCHANGED <<adapter, upstream, results, input, output, ui>>
       ELSE IF PromptIsTooLong(p)
       THEN /\ pc' = "rejected"
            /\ response' =
                   BadRequest("Prompt is too long. Maximum 2000 characters allowed.")
            /\ UNCHANGED <<adapter, upstream, results, input, output, ui>>
       ELSE /\ pc' = "waiting"
            /\ adapter' = [provider \in Providers |-> "running"]
            /\ results' = [provider \in Providers |-> Pending]
            /\ UNCHANGED <<upstream, response, input, output, ui>>

\* An adapter's promise is fulfilled with what the adapter returns.  The value
\* settles the race only if the timer has not; a value that comes after the
\* timer is read by nobody.
AdapterReturn(provider) ==
    /\ adapter[provider] = "running"
    /\ \E u \in UpstreamOf(provider) :
          /\ results' = [results EXCEPT ![provider] =
                            RaceSettle(@, Fulfilled(AdapterValue(provider, prompt, u)))]
          /\ upstream' = [upstream EXCEPT ![provider] =
                            IF results[provider].status = "pending" THEN u ELSE @]
    /\ adapter' = [adapter EXCEPT ![provider] = "returned"]
    /\ UNCHANGED <<pc, prompt, response, input, output, ui>>

\* The setTimeout callback of a provider's race rejects after timeoutMs.  The
\* timer is never cleared; when it expires after the race is settled the
\* rejection is ignored, so only an expiry while the race is pending is a step.
TimerFire(provider) ==
    /\ results[provider].status = "pending"
    /\ results' = [results EXCEPT ![provider] =
                      RaceSettle(@, Rejected(TimeoutMessage(provider)))]
    /\ UNCHANGED <<pc, prompt, adapter, upstream, response, input, output, ui>>

\* the handler is at the await and allSettled has resolved
RespondEnabled == pc = "waiting" /\ AllSettled(results)

\* The handler after the await: individualResponses, the synthesis, res.json.
Respond ==
    /\ RespondEnabled
    /\ pc' = "done"
    /\ response' = AggregateResponse(prompt, results)
    /\ UNCHANGED <<prompt, adapter, upstream, results, input, output, ui>>

Next ==
    \/ \E p \in Prompts : Receive(p)
    \/ \E provider \in Providers : AdapterReturn(provider)
    \/ \E provider \in Providers : TimerFire(provider)
    \/ Respond

Spec == Init /\ [][Next]_vars

\* The event loop runs an expired timer's callback and the continuation of a
\* resolved await; nothing makes a provider's API answer.  The last conjunct is
\* WF_vars(Respond) written out: a Respond step leaves RespondEnabled, so weak
\* fairness of Respond says that RespondEnabled does not hold for ever.
LiveSpec ==
    /\ Spec
    /\ \A provider \in Providers : WF_vars(TimerFire(provider))
    /\ []<>(~RespondEnabled)

-----------------------------------------------------------------------------
(* synthesizeResponses called on its own *)

MaxCore == 14
MaxOwn == 7

\* words that the texts of one call have in common
CoreWords ==
    <<"cache", "query", "index", "shard", "replica", "latency", "throughput",
      "schema", "backup", "restore", "monitor", "deploy", "rollback", "scale",
      "tenant", "quota">>

\* words that only one provider's text has
OwnWords(provider) ==
    CASE provider = "openai" ->
            <<"redis", "memcached", "varnish", "nginx", "haproxy", "envoy",
              "traefik", "caddy", "squid">>
      [] provider = "anthropic" ->
            <<"postgres", "mysql", "sqlite", "oracle", "mariadb", "cockroach",
              "spanner", "aurora", "vitess">>
      [] provider = "google" ->
            <<"kafka", "rabbit", "pulsar", "kinesis", "nats", "zeromq",
              "activemq", "celery", "sidekiq">>

\* what a provider's entry can be: a text of the first `core` common words and
\* some of its own ("" when it has neither), a text of short words only, a
\* value that is no string, or the error entry of a timeout
EntriesOf(provider, core) ==
    {Str(Prefix(CoreWords, core) \o Prefix(OwnWords(provider), own)) :
         own \in 0..MaxOwn}
    \cup {Str(<<"ok", "so", "be", "it">>), Other,
          EntryOf(provider, Rejected(TimeoutMessage(provider)))}

SynthesisInputs ==
    UNION {{[openai |-> a, anthropic |-> b, google |-> c] :
               a \in EntriesOf("openai", core),
               b \in EntriesOf("anthropic", core),
               c \in EntriesOf("google", core)} :
           core \in 0..MaxCore}

SynthesisInit ==
    /\ pc = "idle"
    /\ prompt = Undefined
    /\ adapter = [provider \in Providers |-> "idle"]
    /\ upstream = [provider \in Providers |-> [kind |-> "none"]]
    /\ results = [provider \in Providers |-> [status |-> "none"]]
    /\ response = NoResponse
    /\ input \in SynthesisInputs
    /\ output = NoCall
    /\ NoPage

Synthesize ==
    /\ ~output.called
    /\ output' = [called |-> TRUE, value |-> synthesizeResponses(input)]
    /\ UNCHANGED <<pc, prompt, adapter, upstream, results, response, input, ui>>

SynthesisSpec == SynthesisInit /\ [][Synthesize]_vars

-----------------------------------------------------------------------------
(* calculateTextSimilarity called on its own *)

MaxTextWords == 3

\* the texts of up to MaxTextWords words: empty, of short words only, of words
\* that differ in case only, of the same words in any order
SimilarityTexts == UNION {[1..n -> Vocabulary] : n \in 0..MaxTextWords}

SimilarityInit ==
    /\ pc = "idle"
    /\ prompt = Undefined
    /\ adapter = [provider \in Providers |-> "idle"]
    /\ upstream = [provider \in Providers |-> [kind |-> "none"]]
    /\ results = [provider \in Providers |-> [status |-> "none"]]
    /\ response = NoResponse
    /\ input \in [text1 : SimilarityTexts, text2 : SimilarityTexts]
    /\ output = NoCall
    /\ NoPage

Compare ==
    /\ ~output.called
    /\ output' = [called |-> TRUE,
                  value |-> calculateTextSimilarity(input.text1, input.text2)]
    /\ UNCHANGED <<pc, prompt, adapter, upstream, results, response, input, ui>>

SimilaritySpec == SimilarityInit /\ [][Compare]_vars

-----------------------------------------------------------------------------
(* findCommonThemes called on its own *)

MaxSentences == 2

\* Sentences with their closing marks.  The first and the second share 4 of 5
\* words, the second and the third 4 of 6, the first and the third 3 of 6, the
\* first and the fourth 3 of 5 (exactly 0.6), the third and the fourth 4 of 5.
SentencePool ==
    {<<"cache", "query", "index", "shard.">>,
     <<"cache", "query", "index", "shard", "replica!">>,
     <<"cache", "query", "index", "replica", "latency?">>,
     <<"cache", "query", "index", "latency.">>}

\* the texts of up to n sentences of the pool
TextsOfSentences(n) ==
    {Concat(sentences) :
         sentences \in UNION {[1..k -> SentencePool] : k \in 0..n}}

ThemesInputs ==
    [openai : {Str(text) : text \in TextsOfSentences(MaxSentences)},
     anthropic : {Str(text) : text \in TextsOfSentences(MaxSentences)},
     google : {Str(text) : text \in TextsOfSentences(1)}]

ThemesInit ==
    /\ pc = "idle"
    /\ prompt = Undefined
    /\ adapter = [provider \in Providers |-> "idle"]
    /\ upstream = [provider \in Providers |-> [kind |-> "none"]]
    /\ results = [provider \in Providers |-> [status |-> "none"]]
    /\ response = NoResponse
    /\ input \in ThemesInputs
    /\ output = NoCall
    /\ NoPage

FindThemes ==
    /\ ~output.called
    /\ output' = [called |-> TRUE,
                  value |-> findCommonThemes(validResponsesOf(input))]
    /\ UNCHANGED <<pc, prompt, adapter, upstream, results, response, input, ui>>

ThemesSpec == ThemesInit /\ [][FindThemes]_vars

-----------------------------------------------------------------------------
(* findDisagreements called on its own *)

MaxContrastWords == 2

\* Words with keywords of contrastPairs: "know" has "no" inside, "shouldn't"
\* has "should" inside and "Yes" has "yes" once lowercased.
ContrastWords == {"Yes", "know", "shouldn't", "best", "worst"}

\* the texts of up to n of these words
ContrastTexts(n) == UNION {[1..k -> ContrastWords] : k \in 0..n}

DisagreementsInputs ==
    LET strings == {Str(text) : text \in ContrastTexts(MaxContrastWords)}
    IN  [openai : strings, anthropic : strings, google : strings \cup {Null}]

DisagreementsInit ==
    /\ pc = "idle"
    /\ prompt = Undefined
    /\ adapter = [provider \in Providers |-> "idle"]
    /\ upstream = [provider \in Providers |-> [kind |-> "none"]]
    /\ results = [provider \in Providers |-> [status |-> "none"]]
    /\ response = NoResponse
    /\ input \in DisagreementsInputs
    /\ output = NoCall
    /\ NoPage

FindDisagreements ==
    /\ ~output.called
    /\ output' = [called |-> TRUE,
                  value |-> findDisagreements(validResponsesOf(input))]
    /\ UNCHANGED <<pc, prompt, adapter, upstream, results, response, input, ui>>

DisagreementsSpec == DisagreementsInit /\ [][FindDisagreements]_vars

-----------------------------------------------------------------------------
(* synthesizeResponses called on responses that have nothing in common *)

MaxPoints == 4

\* Sentences with their closing marks: one of 41 characters with an
\* indicator, one of 30 characters with an indicator, one of 35 characters
\* without, one of 2 characters, and one of 199 characters with an indicator.
KeyPointPool ==
    {<<"consider", "redis", "before", "anything", "else", "today.">>,
     <<"the", "best", "redis", "layout", "is", "small!">>,
     <<"redis", "holds", "every", "session", "in", "memory?">>,
     <<"ok.">>,
     <<"important", "configuration", "replication", "partitioning",
       "persistence", "eviction", "snapshots", "clustering", "sentinel",
       "pipelining", "expiration", "keyspace", "failover", "bandwidth",
       "checkpoint", "durability", "allocation", "interoperability.">>}

\* the texts of up to n sentences of the pool
TextsOfPoints(n) ==
    {Concat(sentences) :
         sentences \in UNION {[1..k -> KeyPointPool] : k \in 0..n}}

ComparativeInputs ==
    [openai : {Str(text) : text \in TextsOfPoints(MaxPoints)},
     anthropic : {Str(<<"postgres", "keeps", "rows", "durable", "across",
                       "restarts.">>),
                  Str(<<"teams", "should", "choose", "postgres", "for",
                        "ledgers.">>),
                  Str(<<"ok">>)},
     google : {Str(<<"kafka", "streams", "events", "between", "services.">>),
               Other}]

ComparativeInit ==
    /\ pc = "idle"
    /\ prompt = Undefined
    /\ adapter = [provider \in Providers |-> "idle"]
    /\ upstream = [provider \in Providers |-> [kind |-> "none"]]
    /\ results = [provider \in Providers |-> [status |-> "none"]]
    /\ response = NoResponse
    /\ input \in ComparativeInputs
    /\ output = NoCall
    /\ NoPage

Compose ==
    /\ ~output.called
    /\ output' = [called |-> TRUE, value |-> synthesizeResponses(input)]
    /\ UNCHANGED <<pc, prompt, adapter, upstream, results, response, input, ui>>

ComparativeSpec == ComparativeInit /\ [][Compose]_vars

-----------------------------------------------------------------------------
(* App.jsx: the conversations of the page.  The setters called by one handler *)
(* take effect together; the part of handleSubmit after its await is a step  *)
(* of its own and works on the values the handler held when it was called.   *)

MaxConversations == 2
MaxMessages == 3

\* what the user can have typed: nothing, blanks only, or a prompt
PagePrompts == {"", " ", "p", "q"}

\* prompt.trim()
TrimPrompt(p) == IF p = " " THEN "" ELSE p

UserMessage(content) == [type |-> "user", content |-> content]
AiMessage(data) == [type |-> "ai", content |-> data]

\* response.data of the request for a prompt
DataFor(currentPrompt) == "answer to " \o currentPrompt

NewConversation(id) ==
    [id |-> id, title |-> "New Conversation", messages |-> <<>>]

\* conversations.find(c => c.id === conversationId): the conversation, in a
\* sequence of one, or the empty sequence for undefined
Find(conversationId) ==
    SelectSeq(conversations, LAMBDA c : c.id = conversationId)

\* the state after the effect of the first render, nothing being saved in
\* localStorage: createNewConversation
PageInit ==
    /\ pc = "idle"
    /\ prompt = Undefined
    /\ adapter = [provider \in Providers |-> "idle"]
    /\ upstream = [provider \in Providers |-> [kind |-> "none"]]
    /\ results = [provider \in Providers |-> [status |-> "none"]]
    /\ response = NoResponse
    /\ input = NoCall
    /\ output = NoCall
    /\ conversations = <<NewConversation(1)>>
    /\ currentConversationId = 1
    /\ conversationHistory = <<>>
    /\ loading = FALSE
    /\ view = [results |-> NoResults, error |-> NoError]
    /\ pending = NoRequest

server == <<pc, prompt, adapter, upstream, results, response, input, output>>

createNewConversation ==
    /\ Len(conversations) < MaxConversations
    /\ conversations'
           = <<NewConversation(Len(conversations) + 1)>> \o conversations
    /\ currentConversationId' = Len(conversations) + 1
    /\ conversationHistory' = <<>>
    /\ view' = [results |-> NoResults, error |-> NoError]
    /\ UNCHANGED <<loading, pending, server>>

switchConversation(conversationId) ==
    /\ Find(conversationId) # <<>>
    /\ currentConversationId' = conversationId
    /\ conversationHistory' = Find(conversationId)[1].messages
    /\ view' = [results |-> NoResults, error |-> NoError]
    /\ UNCHANGED <<conversations, loading, pending, server>>

\* handleSubmit up to its await.  The textarea and the button are disabled
\* while loading, and the textarea takes 2000 characters at most.
handleSubmit(typed) ==
    /\ ~loading
    /\ Len(conversationHistory) < MaxMessages
    /\ IF TrimPrompt(typed) = ""
       THEN /\ view' = [view EXCEPT !.error = "Please enter a prompt"]
            /\ UNCHANGED <<conversations, currentConversationId,
                           conversationHistory, loading, pending>>
       ELSE LET currentPrompt == TrimPrompt(typed)
                newConvId == Len(conversations) + 1
                activeConversationId ==
                    IF currentConversationId = NoId THEN newConvId
                    ELSE currentConversationId
                newHistory ==
                    Append(conversationHistory, UserMessage(currentPrompt))
            IN  /\ IF currentConversationId = NoId
                   THEN /\ conversations'
                               = <<NewConversation(newConvId)>>
                                 \o conversations
                        /\ currentConversationId' = newConvId
                   ELSE UNCHANGED <<conversations, currentConversationId>>
                /\ conversationHistory' = newHistory
                /\ loading' = TRUE
                /\ view' = [results |-> NoResults, error |-> NoError]
                /\ pending' = [active |-> TRUE,
                               activeConversationId |-> activeConversationId,
                               currentPrompt |-> currentPrompt,
                               newHistory |-> newHistory]
    /\ UNCHANGED server

\* handleSubmit after its await, the request having succeeded
ResponseArrives ==
    /\ pending.active
    /\ LET finalHistory ==
               Append(pending.newHistory,
                      AiMessage(DataFor(pending.currentPrompt)))
       IN  /\ conversationHistory' = finalHistory
           /\ view' = [view EXCEPT
                           !.results = DataFor(pending.currentPrompt)]
           /\ conversations'
                  = [i \in 1..Len(conversations) |->
                        LET conv == conversations[i]
                        IN  IF conv.id = pending.activeConversationId
                            THEN [conv EXCEPT
                                     !.messages = finalHistory,
                                     !.title =
                                         IF conv.title = "New Conversation"
                                         THEN pending.currentPrompt
                                         ELSE conv.title]
                            ELSE conv]
    /\ loading' = FALSE
    /\ pending' = NoRequest
    /\ UNCHANGED <<currentConversationId, server>>

\* handleSubmit after its await, the request having failed
RequestFails ==
    /\ pending.active
    /\ view' = [view EXCEPT !.error = "Request failed"]
    /\ conversationHistory'
           = SubSeq(conversationHistory, 1, Len(conversationHistory) - 1)
    /\ loading' = FALSE
    /\ pending' = NoRequest
    /\ UNCHANGED <<conversations, currentConversationId, server>>

PageNext ==
    \/ createNewConversation
    \/ \E conversationId \in 1..MaxConversations :
           switchConversation(conversationId)
    \/ \E typed \in PagePrompts : handleSubmit(typed)
    \/ ResponseArrives
    \/ RequestFails

PageSpec == PageInit /\ [][PageNext]_vars

-----------------------------------------------------------------------------
(* langchainService.js, langchainSynthesisService.js and the route of        *)
(* langchainServer.js after its validation.  A model response is a string or *)
(* null.                                                                     *)

\* mockResponses[service]?.[errorType] || `${service} service error - mock response provided.`
getMockResponse(service, errorType) ==
    CASE service = "openai" /\ errorType = "no_api_key" ->
            Str(<<"OpenAI", "API", "key", "not", "configured.", "This", "is",
                  "a", "mock", "response.", "To", "use", "real", "OpenAI",
                  "responses,", "please", "add", "your", "API", "key", "to",
                  "the", ".env", "file.">>)
      [] service = "openai" /\ errorType = "quota_exceeded" ->
            Str(<<"OpenAI", "API", "quota", "exceeded.", "This", "is", "a",
                  "mock", "response.", "The", "service", "would", "normally",
                  "provide", "insights", "based", "on", "GPT-3.5-turbo's",
                  "analysis.">>)
      [] service = "openai" /\ errorType = "auth_error" ->
            Str(<<"OpenAI", "authentication", "failed.", "This", "is", "a",
                  "mock", "response", "simulating", "GPT-3.5-turbo's",
                  "typical", "analytical", "style.">>)
      [] service = "openai" /\ errorType = "general_error" ->
            Str(<<"OpenAI", "service", "temporarily", "unavailable.", "This",
                  "mock", "response", "represents", "what", "GPT-3.5-turbo",
                  "might", "say.">>)
      [] service = "anthropic" /\ errorType = "no_api_key" ->
            Str(<<"Anthropic", "API", "key", "not", "configured.", "This",
                  "is", "a", "mock", "response.", "To", "use", "real",
                  "Claude", "responses,", "please", "add", "your", "API",
                  "key", "to", "the", ".env", "file.">>)
      [] service = "anthropic" /\ errorType = "credit_error" ->
            Str(<<"Anthropic", "API", "credit", "limit", "reached.", "This",
                  "is", "a", "mock", "response.", "Claude", "would",
                  "typically", "provide", "a", "thoughtful,", "nuanced",
                  "perspective", "here.">>)
      [] service = "anthropic" /\ errorType = "auth_error" ->
            Str(<<"Anthropic", "authentication", "failed.", "This", "mock",
                  "response", "simulates", "Claude's", "characteristic",
                  "thoroughness", "and", "clarity.">>)
      [] service = "anthropic" /\ errorType = "general_error" ->
            Str(<<"Anthropic", "service", "temporarily", "unavailable.",
                  "This", "represents", "Claude's", "typical", "structured",
                  "approach.">>)
      [] service = "google" /\ errorType = "no_api_key" ->
            Str(<<"Google", "AI", "API", "key", "not", "configured.", "This",
                  "is", "a", "mock", "response.", "To", "use", "real",
                  "Gemini", "responses,", "please", "add", "your", "API",
                  "key", "to", "the", ".env", "file.">>)
      [] service = "google" /\ errorType = "auth_error" ->
            Str(<<"Google", "AI", "authentication", "failed.", "This", "is",
                  "a", "mock", "response.", "Gemini", "would", "normally",
                  "offer", "comprehensive", "analysis", "here.">>)
      [] service = "google" /\ errorType = "general_error" ->
            Str(<<"Google", "AI", "service", "temporarily", "unavailable.",
                  "This", "mock", "response", "represents", "Gemini's",
                  "typical", "informative", "style.">>)
      [] OTHER ->
            Str(<<service, "service", "error", "-", "mock", "response", "provided.">>)

\* the words that end with "mock" and the words that begin with "response"
MockEndings == {"mock"}
ResponseBeginnings ==
    {"response", "response.", "response:", "responses", "responses,"}

\* string.includes('mock response'), the case of the letters kept
IncludesMockResponse(words) ==
    \E i \in 1..(Len(words) - 1) :
        words[i] \in MockEndings /\ words[i + 1] \in ResponseBeginnings

\* response && !response.includes('mock response')
IsRealResponse(resp) == Truthy(resp) /\ ~IncludesMockResponse(resp.words)

\* What a provider's chain does for one request: it returns a text at every
\* call, it throws an error with a message at every call, or it throws at the
\* first call and returns a text at the second.  The chain of google throws
\* only when both of its models have failed.
Returns(text) == [kind |-> "returns", text |-> text]
Throws(message) == [kind |-> "throws", message |-> message]
Recovers(text) == [kind |-> "recovers", text |-> text]
NoChain == [kind |-> "nochain"]

\* the texts that the error handlers look for in error.message, and a message
\* with none of them
ErrorMessages ==
    {"insufficient_quota", "Incorrect API key", "credit balance",
     "Invalid API Key", "API key not valid", "ECONNRESET"}

FirstCallThrows(behaviour) == behaviour.kind \in {"throws", "recovers"}

\* the error type that a provider's catch block picks for the message
ErrorTypeOf(service, message) ==
    CASE service = "openai" /\ message = "insufficient_quota" -> "quota_exceeded"
      [] service = "openai" /\ message = "Incorrect API key" -> "auth_error"
      [] service = "anthropic" /\ message = "credit balance" -> "credit_error"
      [] service = "anthropic" /\ message = "Invalid API Key" -> "auth_error"
      [] service = "google" /\ message = "API key not valid" -> "auth_error"
      [] OTHER -> "general_error"

\* queryOpenAI, queryAnthropic, queryGoogle: the call made after the parallel
\* call has failed
queryModel(service, behaviour) ==
    IF behaviour.kind = "nochain" THEN getMockResponse(service, "no_api_key")
    ELSE IF behaviour.kind = "throws"
    THEN getMockResponse(service, ErrorTypeOf(service, behaviour.message))
    ELSE Str(behaviour.text)

\* value || null for a string or undefined
OrNull(v) == IF Truthy(v) THEN v ELSE Null

queryAllModels(behaviours) ==
    LET available == {service \in Providers :
                          behaviours[service].kind # "nochain"}
    IN  IF available # {}
           /\ \A service \in available : ~FirstCallThrows(behaviours[service])
        THEN [service \in Providers |->
                 IF service \in available
                 THEN OrNull(Str(behaviours[service].text))
                 ELSE Null]
        ELSE [service \in Providers |-> queryModel(service, behaviours[service])]

\* the tokens of more than 3 characters of the lowercased response
TokenSet(words) ==
    {toLowerCase(words[i]) : i \in {j \in 1..Len(words) : Len(words[j]) > 3}}

\* Object.entries(responses) filtered: the real responses in key order
RealResponsesOf(responses) ==
    SelectSeq([i \in 1..Len(ProviderOrder) |->
                  [model |-> ProviderOrder[i],
                   text |-> responses[ProviderOrder[i]]]],
              LAMBDA entry : IsRealResponse(entry.text))

calculateSimilarity(responses) ==
    LET validResponses == RealResponsesOf(responses)
        tokenSets == [i \in 1..Len(validResponses) |->
                         TokenSet(validResponses[i].text.words)]
        pairs == PairsFrom(1, 2, Len(tokenSets))
        similarities ==
            [k \in 1..Len(pairs) |->
                Ratio(Cardinality(tokenSets[pairs[k][1]]
                                      \cap tokenSets[pairs[k][2]]),
                      Cardinality(tokenSets[pairs[k][1]]
                                      \cup tokenSets[pairs[k][2]]))]
        averageSimilarity ==
            IF Len(pairs) > 0 THEN Over(SumOf(similarities), Len(pairs))
            ELSE Zero
    IN  IF Len(validResponses) < 2
        THEN [score |-> Zero, validCount |-> Len(validResponses)]
        ELSE [score |-> RoundPercent(averageSimilarity),
              validCount |-> Len(validResponses)]

toUpperCase(model) ==
    CASE model = "openai" -> "OPENAI"
      [] model = "anthropic" -> "ANTHROPIC"
      [] model = "google" -> "GOOGLE"

\* similarity.score > 70 ? 'high' : similarity.score > 30 ? 'medium' : 'low'
ConfidenceOf(score) ==
    IF MoreThan(score, 70, 1) THEN "high"
    ELSE IF MoreThan(score, 30, 1) THEN "medium"
    ELSE "low"

createFallbackSynthesis(responses, similarity) ==
    LET validResponses == RealResponsesOf(responses)
        section(i) ==
            (IF i > 1 THEN <<Blank>> ELSE <<>>)
            \o <<TextLine(<<toUpperCase(validResponses[i].model) \o ":", Space>>
                          \o Spaced(validResponses[i].text.words))>>
    IN  IF Len(validResponses) = 0
        THEN [response |-> <<TextLine(<<"Unable to get responses from AI models at this time. Please try again later.">>)>>,
              confidence |-> "low",
              confidenceScore |-> Zero,
              approach |-> "Service Unavailable",
              details |-> [commonThemes |-> <<>>,
                           differences |-> <<>>,
                           modelContributions |-> <<>>,
                           validModels |-> 0,
                           similarityScore |-> Zero]]
        ELSE [response |->
                  Concat([i \in 1..Len(validResponses) |-> section(i)]),
              confidence |-> ConfidenceOf(similarity.score),
              confidenceScore |-> similarity.score,
              approach |-> "Direct Model Responses",
              details |-> [commonThemes |-> <<>>,
                           differences |-> <<>>,
                           modelContributions |->
                               [i \in 1..Len(validResponses) |->
                                   validResponses[i].model],
                           validModels |-> Len(validResponses),
                           similarityScore |-> similarity.score]]

getApproachDescription(confidence) ==
    CASE confidence = "high" ->
            "Consensus Synthesis - All models strongly agree on the core response."
      [] confidence = "low" ->
            "Comparative Analysis - Models provided significantly different approaches."
      [] OTHER ->
            "Multi-Perspective Integration - Models show partial agreement with some unique insights."

\* What the synthesis chain can do: throw (the call or the parsing fails), or
\* return an object of the schema, whose confidence and score are the synthesis
\* model's own.
ChainThrows == [kind |-> "throws"]
Parsed(confidence, confidenceScore) ==
    [kind |-> "parsed", confidence |-> confidence,
     confidenceScore |-> confidenceScore]

ChainOutcomes ==
    {ChainThrows, Parsed("high", Num(85)), Parsed("medium", Num(50)),
     Parsed("low", Num(10)), Parsed("high", Num(10))}

\* LangChainSynthesisService.synthesizeResponses; the synthesis chain exists
\* when the OpenAI key does
synthesizeResponsesLangChain(responses, hasChain, chain) ==
    LET similarity == calculateSimilarity(responses)
    IN  IF similarity.validCount >= 2 /\ hasChain
        THEN IF chain.kind = "throws"
             THEN createFallbackSynthesis(responses,
                                          [score |-> Zero, validCount |-> 0])
             ELSE [response |-> <<TextLine(<<"synthesizedResponse">>)>>,
                   confidence |-> chain.confidence,
                   confidenceScore |-> chain.confidenceScore,
                   approach |-> getApproachDescription(chain.confidence),
                   details |-> [commonThemes |-> <<>>,
                                differences |-> <<>>,
                                modelContributions |-> <<>>,
                                validModels |-> similarity.validCount,
                                similarityScore |-> similarity.score]]
        ELSE createFallbackSynthesis(responses, similarity)

\* modelResponses[key] || 'No response available'
Formatted(resp) ==
    IF Truthy(resp) THEN resp ELSE Str(<<"No", "response", "available">>)

\* the body that the route sends with res.json
LangChainResponse(behaviours, chain) ==
    LET modelResponses == queryAllModels(behaviours)
        synthesis ==
            synthesizeResponsesLangChain(modelResponses,
                                         behaviours["openai"].kind # "nochain",
                                         chain)
    IN  [modelResponses |-> modelResponses,
         synthesis |-> synthesis,
         sourcesUsed |-> SelectSeq(ProviderOrder,
                                   LAMBDA key :
                                       IsRealResponse(modelResponses[key])),
         individualResponses |->
             [key \in Providers |-> Formatted(modelResponses[key])],
         metadata |-> [totalSources |-> 3,
                       successfulSources |-> synthesis.details.validModels]]

\* the text of a provider: some common words, then some of its own
ModelText(service, core, own) ==
    Prefix(CoreWords, core) \o Prefix(OwnWords(service), own)

\* With the keys of `keyed` configured, every chain returns a text.
AnsweringBehaviours(keyed) ==
    UNION {{[openai |-> a, anthropic |-> b, google |-> c] :
               a \in IF "openai" \in keyed
                     THEN {Returns(ModelText("openai", core, own)) :
                               own \in 0..MaxOwn}
                     ELSE {NoChain},
               b \in IF "anthropic" \in keyed
                     THEN {Returns(ModelText("anthropic", core, own)) :
                               own \in 0..MaxOwn}
                     ELSE {NoChain},
               c \in IF "google" \in keyed
                     THEN {Returns(ModelText("google", core, own)) :
                               own \in 0..MaxOwn}
                     ELSE {NoChain}} :
           core \in 0..MaxCore}

\* what a chain can do besides returning one fixed text: return "", throw with
\* each message, throw and then return the text
ChainBehaviours(service) ==
    {Returns(ModelText(service, 2, 1)), Returns(<<>>),
     Recovers(ModelText(service, 2, 1))}
    \cup {Throws(message) : message \in ErrorMessages}

\* With the keys of `keyed` configured, the chains return, throw or recover.
FailingBehaviours(keyed) ==
    {[openai |-> a, anthropic |-> b, google |-> c] :
        a \in IF "openai" \in keyed THEN ChainBehaviours("openai")
              ELSE {NoChain},
        b \in IF "anthropic" \in keyed THEN ChainBehaviours("anthropic")
              ELSE {NoChain},
        c \in IF "google" \in keyed THEN ChainBehaviours("google")
              ELSE {NoChain}}

LangChainInputs ==
    UNION {AnsweringBehaviours(keyed) \cup FailingBehaviours(keyed) :
           keyed \in SUBSET Providers}

LangChainInit ==
    /\ pc = "idle"
    /\ prompt = Undefined
    /\ adapter = [provider \in Providers |-> "idle"]
    /\ upstream = [provider \in Providers |-> [kind |-> "none"]]
    /\ results = [provider \in Providers |-> [status |-> "none"]]
    /\ response = NoResponse
    /\ input \in LangChainInputs
    /\ output = NoCall
    /\ NoPage

\* The route of langchainServer.js for a valid prompt: the three models are
\* queried, their responses synthesized, the body sent.
LangChainAggregate ==
    /\ ~output.called
    /\ \E chain \in ChainOutcomes :
          output' = [called |-> TRUE, value |-> LangChainResponse(input, chain)]
    /\ UNCHANGED <<pc, prompt, adapter, upstream, results, response, input, ui>>

LangChainSpec == LangChainInit /\ [][LangChainAggregate]_vars

-----------------------------------------------------------------------------
(* Properties *)

Range(seq) == {seq[i] : i \in 1..Len(seq)}

Done == pc = "done"

TimedOut(provider) == results[provider].status = "rejected"

\* the fields of a result that say how confident it is
TierScoreApproach(s) == <<s.confidence, s.confidenceScore, s.approach>>

TierScoreApproachSources(s) ==
    <<s.confidence, s.confidenceScore, s.approach, s.sourcesUsed>>

\* the mapping cut down to some of its providers
Only(individualResponses, keep) ==
    [provider \in keep |-> individualResponses[provider]]

\* the texts an adapter substitutes for a provider's answer
FallbackValues(provider, p) ==
    CASE provider = "openai" ->
            {getMockOpenAIResponse(p), getEnhancedMockResponseOpenAI(p)}
      [] provider = "anthropic" ->
            {getMockAnthropicResponse(p), getEnhancedMockResponseAnthropic(p)}
      [] provider = "google" ->
            {getMockGoogleResponse(p), getEnhancedMockResponseGoogle(p)}

\* the provider's entry is a fallback text its adapter substituted
IsSynthetic(provider) ==
    /\ results[provider].status = "fulfilled"
    /\ results[provider].value \in FallbackValues(provider, prompt)

TierApproachPairs ==
    { <<"No Valid Responses", "error">>,
      <<"Single Source", "single">>,
      <<"High Confidence", "consensus">>,
      <<"Multiple Perspectives", "balanced">>,
      <<"Diverse Approaches", "comparative">> }

IsPercent(x) == \E k \in 0..100 : x = Num(k)

\* C1: whatever the providers' outcomes, the synthesis sent is well formed: its
\* (tier, approach) pair is one of the five pairs and its confidenceScore is an
\* integer between 0 and 100.
C1_WellFormedResult ==
    Done =>
        /\ <<response.synthesis.confidence, response.synthesis.approach>>
               \in TierApproachPairs
        /\ IsPercent(response.synthesis.confidenceScore)

\* C2: a fallback text that an adapter substituted is not counted as a valid
\* response: its provider is not in sourcesUsed, and tier, score and approach are
\* those of the synthesis of the other entries alone.
C2_FallbackNotCounted ==
    Done =>
        LET real == {provider \in Providers : ~IsSynthetic(provider)}
        IN  /\ \A provider \in Providers \ real :
                   Capitalize(provider) \notin Range(response.synthesis.sourcesUsed)
            /\ TierScoreApproach(response.synthesis) =
                   TierScoreApproach(
                       synthesizeResponses(Only(response.individualResponses, real)))

\* the adapter reported a failure of its provider (auth, quota, network, server
\* error) and put a fallback text in the answer's place
ReportedFailure(provider) ==
    /\ IsSynthetic(provider)
    /\ upstream[provider].kind \in {"http", "network"}

\* the entry the route records for a provider whose timer fired
TimeoutEntry(provider) == EntryOf(provider, Rejected(TimeoutMessage(provider)))

\* C3: a provider whose adapter reported a failure is recorded like one that
\* timed out: with the other entries the same, the entry has the same validity
\* and the synthesis has the same tier, score, approach and sourcesUsed.
C3_FailureLikeTimeout ==
    Done =>
        \A provider \in Providers :
            ReportedFailure(provider) =>
                LET timedOut == [response.individualResponses
                                    EXCEPT ![provider] = TimeoutEntry(provider)]
                IN  /\ IsValidResponse(response.individualResponses[provider])
                           = IsValidResponse(timedOut[provider])
                    /\ TierScoreApproachSources(response.synthesis)
                           = TierScoreApproachSources(synthesizeResponses(timedOut))

\* an entry is an error entry
IsErrorEntry(entry) == HasError(entry) /\ ~IsString(entry)

\* an entry is a response text
IsTextEntry(entry) == IsString(entry) /\ ~HasError(entry)

\* C4: individualResponses has an entry for each of openai, anthropic and
\* google and for nothing else, and each entry is a response text or an error
\* entry.
C4_CompleteMapping ==
    Done =>
        /\ DOMAIN response.individualResponses = Providers
        /\ \A provider \in Providers :
               \/ IsTextEntry(response.individualResponses[provider])
               \/ IsErrorEntry(response.individualResponses[provider])

\* C5: the response of an accepted request is sent only when every adapter has
\* returned or had its timer fire.
C5_AllSettle ==
    (response.sent /\ response.status = 200) =>
        \A provider \in Providers :
            adapter[provider] = "returned" \/ TimedOut(provider)

\* a response was sent while one adapter had returned first and another had
\* failed to answer in time
C5_Witness ==
    /\ Done
    /\ \E a, b \in Providers :
          /\ results[a].status = "fulfilled"
          /\ TimedOut(b)

\* C6: an accepted request is answered even if adapters never return.
C6_EventuallyResponds == (pc = "waiting") ~> (pc = "done")

\* the response was sent with no adapter having returned
C6_Witness ==
    /\ Done
    /\ \A provider \in Providers : adapter[provider] = "running"

\* C7: after a provider's timer fired its result stays the timeout error, whatever
\* its adapter returns later, the response sent holds the timeout entry for it and
\* never changes, and a timer's firing changes no other provider's race or call.
C7_LateResultDiscarded ==
    [][\A provider \in Providers :
          /\ TimedOut(provider) => results'[provider] = results[provider]
          /\ (pc' = "done" /\ results'[provider].status = "rejected") =>
                 response'.individualResponses[provider] = TimeoutEntry(provider)
          /\ response.sent => response' = response
          /\ (results[provider].status = "pending"
                  /\ results'[provider].status = "rejected") =>
                 \A other \in Providers \ {provider} :
                     /\ results'[other] = results[other]
                     /\ adapter'[other] = adapter[other]]_vars

\* an adapter returned after its timer had fired, next to a provider that answered
C7_Witness ==
    /\ Done
    /\ \E a, b \in Providers :
          /\ TimedOut(a)
          /\ adapter[a] = "returned"
          /\ results[b].status = "fulfilled"

\* C8: with timed-out providers, tier, score and approach are those of the
\* synthesis of the other providers' entries alone.
C8_TimeoutLeavesTier ==
    Done =>
        LET remaining == {provider \in Providers : ~TimedOut(provider)}
        IN  TierScoreApproach(response.synthesis) =
                TierScoreApproach(
                    synthesizeResponses(Only(response.individualResponses, remaining)))

\* one provider timed out and the two others answered with texts
C8_Witness ==
    /\ Done
    /\ \E a \in Providers :
          /\ TimedOut(a)
          /\ \A other \in Providers \ {a} :
                 IsTextEntry(response.individualResponses[other])

\* C9: whatever the provider's API does, the value an adapter returns is a text
\* string.
C9_AdapterReturnsText ==
    \A provider \in Providers :
        results[provider].status = "fulfilled" =>
            IsString(results[provider].value)

\* C10: when every entry is an error entry the request is still answered, with
\* tier None, score 0, approach "error" and an empty sourcesUsed.
C10_NoValidResponses ==
    (Done /\ \A provider \in Providers :
                 IsErrorEntry(response.individualResponses[provider])) =>
        /\ response.status = 200
        /\ response.synthesis.confidence = "No Valid Responses"
        /\ response.synthesis.confidenceScore = Num(0)
        /\ response.synthesis.approach = "error"
        /\ response.synthesis.sourcesUsed = <<>>
        /\ response.metadata.successfulSources = 0

\* all three timers fired and the response was sent
C10_Witness ==
    /\ Done
    /\ \A provider \in Providers : TimedOut(provider)

\* the providers whose entry synthesizeResponses takes as a valid response
ValidProviders(individualResponses) ==
    {provider \in DOMAIN individualResponses :
         IsValidResponse(individualResponses[provider])}

\* C11: with exactly one valid response the result has tier Single Source, score
\* 50, approach "single", that provider alone in sourcesUsed and the response's
\* text as the answer, whichever provider it is.
C11_SingleValid ==
    Done =>
        \A provider \in Providers :
            ValidProviders(response.individualResponses) = {provider} =>
                /\ response.synthesis.confidence = "Single Source"
                /\ response.synthesis.confidenceScore = Num(50)
                /\ response.synthesis.approach = "single"
                /\ response.synthesis.sourcesUsed = <<Capitalize(provider)>>
                /\ response.synthesis.synthesizedAnswer
                       = response.individualResponses[provider].words

\* the only valid response is the last provider's, after a timeout of the first
\* and a non-text value from the second
C11_Witness ==
    /\ Done
    /\ TimedOut("openai")
    /\ ~IsString(response.individualResponses["anthropic"])
    /\ ~HasError(response.individualResponses["anthropic"])
    /\ IsTextEntry(response.individualResponses["google"])
    /\ response.individualResponses["google"].words # <<>>

\* the exact similarity of two texts as a fraction <<n, d>>; <<0, 0>> when it
\* has no value
ExactSimilarity(text1, text2) ==
    IF text1 = <<>> \/ text2 = <<>> THEN <<0, 1>>
    ELSE <<Cardinality(WordSet(text1) \cap WordSet(text2)),
           Cardinality(WordSet(text1) \cup WordSet(text2))>>

\* the exact similarities of the pairs of valid responses
ExactSimilarities(validResponses) ==
    LET pairs == PairsFrom(1, 2, Len(validResponses))
    IN  [k \in 1..Len(pairs) |->
            ExactSimilarity(validResponses[pairs[k][1]].text,
                            validResponses[pairs[k][2]].text)]

RECURSIVE ExactTotal(_)
ExactTotal(fractions) ==
    IF fractions = <<>> THEN <<0, 1>>
    ELSE LET rest == ExactTotal(Tail(fractions))
             first == Head(fractions)
         IN  <<first[1] * rest[2] + rest[1] * first[2], first[2] * rest[2]>>

\* the exact mean of the fractions is at least num / den
ExactMeanAtLeast(fractions, num, den) ==
    LET total == ExactTotal(fractions)
    IN  total[1] * den >= num * total[2] * Len(fractions)

\* the tier and approach that the mean similarity of the valid responses calls for
TierOfMean(validResponses) ==
    LET exact == ExactSimilarities(validResponses)
    IN  IF ExactMeanAtLeast(exact, 7, 10) THEN <<"High Confidence", "consensus">>
        ELSE IF ExactMeanAtLeast(exact, 3, 10)
        THEN <<"Multiple Perspectives", "balanced">>
        ELSE <<"Diverse Approaches", "comparative">>

\* every pair of valid responses has a similarity
MeanIsDefined(validResponses) ==
    \A k \in DOMAIN ExactSimilarities(validResponses) :
        ExactSimilarities(validResponses)[k][2] # 0

\* C12: with two or more valid responses whose pairs all have a similarity, the
\* tier follows the mean of the pair similarities: High from 0.70 up (0.70
\* itself included), Medium from 0.30 up (0.30 itself included), Low below.
C12_TierFollowsMean ==
    output.called =>
        LET validResponses == validResponsesOf(input)
        IN  (Len(validResponses) >= 2 /\ MeanIsDefined(validResponses)) =>
                <<output.value.confidence, output.value.approach>>
                    = TierOfMean(validResponses)

\* what a call of synthesizeResponses shows of its confidence
Summary(individualResponses) ==
    LET result == synthesizeResponses(individualResponses)
    IN  [count |-> Len(validResponsesOf(individualResponses)),
         score |-> result.confidenceScore,
         tier |-> result.confidence]

\* The inputs whose texts come first and in order of length, the other entries
\* being timeouts; every other input differs from one of these by the order of
\* its providers or by the kind of an entry that is not valid.
InOrder(individualResponses) ==
    /\ \A provider \in Providers :
           IsString(individualResponses[provider])
               \/ HasError(individualResponses[provider])
    /\ \A i, j \in 1..Len(ProviderOrder) :
           (i < j /\ IsString(individualResponses[ProviderOrder[j]])) =>
               /\ IsString(individualResponses[ProviderOrder[i]])
               /\ Len(individualResponses[ProviderOrder[i]].words)
                      <= Len(individualResponses[ProviderOrder[j]].words)

SynthesisSummaries ==
    {Summary(individualResponses) :
         individualResponses \in {ir \in SynthesisInputs : InOrder(ir)}}

\* C13: two inputs with the same number of valid responses and the same
\* confidenceScore have the same tier (each input against the inputs in order).
C13_TierFunctionOfScore ==
    output.called =>
        \A other \in SynthesisSummaries :
            (other.count = Len(validResponsesOf(input))
                 /\ other.score = output.value.confidenceScore) =>
                other.tier = output.value.confidence

\* C13 as amended: two inputs with the same number of valid responses and the
\* same confidenceScore other than 30 and 70 have the same tier.
C13_TierFunctionOffThresholds ==
    output.called =>
        \A other \in SynthesisSummaries :
            (other.count = Len(validResponsesOf(input))
                 /\ other.score = output.value.confidenceScore
                 /\ other.score \notin {Num(30), Num(70)}) =>
                other.tier = output.value.confidence

\* an input that is not in order has the number of valid responses (three) and
\* the score (not 30, 70 or NaN) of an input in order
C13_Witness ==
    /\ output.called
    /\ ~InOrder(input)
    /\ Len(validResponsesOf(input)) = 3
    /\ output.value.confidenceScore \notin {NaN, Num(30), Num(70)}
    /\ \E other \in SynthesisSummaries :
           /\ other.count = 3
           /\ other.score = output.value.confidenceScore

\* the names of the providers whose entry is valid, in registration order
ValidInOrder(individualResponses) ==
    LET keep == SelectSeq(ProviderOrder,
                          LAMBDA provider :
                              IsValidResponse(individualResponses[provider]))
    IN  [i \in 1..Len(keep) |-> Capitalize(keep[i])]

\* C14: in every result sent, sourcesUsed lists the providers whose entry is
\* valid, each once, in the order openai, anthropic, google, and no other.
C14_SourcesAreValidProviders ==
    Done => response.synthesis.sourcesUsed
                = ValidInOrder(response.individualResponses)

\* a result of two valid responses with a timeout between them
C14_Witness ==
    /\ Done
    /\ IsTextEntry(response.individualResponses["openai"])
    /\ TimedOut("anthropic")
    /\ IsTextEntry(response.individualResponses["google"])
    /\ response.synthesis.confidence = "High Confidence"
    /\ response.synthesis.sourcesUsed = <<"Openai", "Google">>

\* the words, and the pieces of words between ".", "!" and "?", of a string
PiecesIn(string) ==
    UNION {Range(Pieces(string[i])) : i \in 1..Len(string)} \ {"", Space}

\* the words of the answer that come from response text: the text lines and
\* the bullets of a synthesized text, or the text of the only valid response
AnswerPieces(result) ==
    IF result.approach = "error" THEN {}
    ELSE IF result.approach = "single" THEN PiecesIn(result.synthesizedAnswer)
    ELSE UNION {PiecesIn(result.synthesizedAnswer[i].string) :
                    i \in {j \in 1..Len(result.synthesizedAnswer) :
                               result.synthesizedAnswer[j].kind
                                   \in {"text", "bullet"}}}

\* some text of the provider's response appears in the answer
Contributed(individualResponses, result, provider) ==
    /\ provider \in DOMAIN individualResponses
    /\ IsString(individualResponses[provider])
    /\ PiecesIn(individualResponses[provider].words) \cap AnswerPieces(result)
           # {}

Listed(result, provider) == Capitalize(provider) \in Range(result.sourcesUsed)

\* C15: in every result a provider is in sourcesUsed if and only if some text
\* of its response appears in the synthesized answer.
C15_ListedIffContributed ==
    output.called =>
        \A provider \in Providers :
            Listed(output.value, provider)
                <=> Contributed(input, output.value, provider)

\* C15 (amended): every provider some text of whose response appears in the
\* synthesized answer is in sourcesUsed, and every provider in sourcesUsed has a
\* valid response.
C15_ContributorsAreListed ==
    output.called =>
        \A provider \in Providers :
            /\ Contributed(input, output.value, provider)
                   => Listed(output.value, provider)
            /\ Listed(output.value, provider)
                   => provider \in ValidProviders(input)

\* a consensus result whose additional insights carry text of the response
\* that is not the base
C15_Witness ==
    /\ output.called
    /\ output.value.approach = "consensus"
    /\ \E i \in 1..Len(output.value.synthesizedAnswer) :
           output.value.synthesizedAnswer[i].kind = "bullet"
    /\ \A provider \in ValidProviders(input) :
           Contributed(input, output.value, provider)

\* A provider's outcome is its timeout, or the upstream behaviour its adapter
\* met; the entry that the outcome alone determines:
OutcomeEntry(provider) ==
    IF TimedOut(provider)
    THEN [type |-> "object",
          error |-> TRUE,
          message |-> TimeoutMessage(provider),
          source |-> SourceName(provider)]
    ELSE AdapterValue(provider, prompt, upstream[provider])

OutcomeEntries == [provider \in Providers |-> OutcomeEntry(provider)]

\* C16: the result sent is determined by the prompt and the three providers'
\* outcomes alone, in whichever order the adapters returned and the timers
\* fired: individualResponses is the mapping of the outcomes' entries, the
\* synthesis is the one of that mapping, and sourcesUsed is in the order
\* openai, anthropic, google.
C16_ResultOfOutcomes ==
    Done =>
        /\ response.individualResponses = OutcomeEntries
        /\ response.synthesis = synthesizeResponses(OutcomeEntries)
        /\ response.synthesis.sourcesUsed = ValidInOrder(OutcomeEntries)

\* a result after the last provider settled first, by its timer, and its
\* adapter returned later, while the first two providers' responses are valid
C16_Witness ==
    /\ Done
    /\ TimedOut("google")
    /\ adapter["google"] = "returned"
    /\ response.synthesis.sourcesUsed = <<"Openai", "Anthropic">>

Count(text, word) == Cardinality({i \in 1..Len(text) : text[i] = word})

\* the two texts are made of the same words, in any order
SameWords(text1, text2) ==
    \A word \in Vocabulary : Count(text1, word) = Count(text2, word)

\* C18: a non-empty text compared with itself, or with a text of the same words
\* in another order, scores 1, also when all its words are shorter than 3
\* characters.
C18_SameWordsScoreOne ==
    output.called /\ input.text1 # <<>> /\ SameWords(input.text1, input.text2)
        => output.value = Num(1)

\* C19: two texts that share no word of 3 or more characters, case ignored,
\* score 0, also when neither text has a word of 3 or more characters.
C19_NoSharedWordScoresZero ==
    output.called /\ WordSet(input.text1) \cap WordSet(input.text2) = {}
        => output.value = Zero

\* the valid responses whose text is not empty
NonEmptyValid(individualResponses) ==
    SelectSeq(validResponsesOf(individualResponses), LAMBDA r : r.text # <<>>)

\* C20: when a valid response has empty text, each pair with it has similarity
\* 0 and the mean similarity, hence the score, is the one of the remaining
\* pairs, the pairs of the valid responses with text.
C20_EmptyTextLeftOutOfMean ==
    Done =>
        LET validResponses == validResponsesOf(response.individualResponses)
            withText == NonEmptyValid(response.individualResponses)
        IN  /\ \A i, j \in 1..Len(validResponses) :
                   validResponses[i].text = <<>> =>
                       calculateTextSimilarity(validResponses[i].text,
                                               validResponses[j].text) = Zero
            /\ Len(withText) < Len(validResponses) /\ Len(withText) >= 2 =>
                   response.synthesis.confidenceScore
                       = RoundPercent(avgSimilarityOf(similaritiesOf(withText)))

\* the prompt is missing, empty, of whitespace only, or longer than 2000
\* characters
MustBeRejected(p) ==
    \/ p.type = "undefined"
    \/ p.length = 0
    \/ p.trimLength = 0
    \/ p.length > 2000

\* C21: a prompt that is missing, empty, of whitespace only or longer than 2000
\* characters is answered with status 400 while no adapter has been called and
\* nothing has been synthesized; every other prompt starts the three adapters.
C21_InvalidPromptRejected ==
    pc # "idle" =>
        /\ MustBeRejected(prompt) <=> pc = "rejected"
        /\ pc = "rejected" =>
               /\ response.sent /\ response.status = 400
               /\ "synthesis" \notin DOMAIN response
               /\ \A provider \in Providers :
                      /\ adapter[provider] = "idle"
                      /\ results[provider].status = "none"
        /\ pc # "rejected" =>
               \A provider \in Providers : adapter[provider] # "idle"

\* a prompt of three spaces has been rejected
C21_Witness ==
    /\ pc = "rejected"
    /\ prompt.type = "string" /\ prompt.length = 3 /\ prompt.trimLength = 0
    /\ response.status = 400

\* the documented bands: high from 70, medium from 30 to below 70, low below 30
BandOf(score) ==
    IF AtLeast(score, 70, 1) THEN "high"
    ELSE IF AtLeast(score, 30, 1) THEN "medium"
    ELSE "low"

\* C22: in every result of createFallbackSynthesis with a similarity score from
\* 0 to 100 the confidence label is the band of the score: high from 70 on,
\* medium from 30 to below 70, low below 30.
C22_ConfidenceFollowsBands ==
    output.called
    /\ output.value.synthesis.approach
           \in {"Direct Model Responses", "Service Unavailable"}
    /\ IsPercent(output.value.synthesis.confidenceScore)
        => output.value.synthesis.confidence
               = BandOf(output.value.synthesis.confidenceScore)

\* C23: for every set of configured keys, queryAllModels returns a text for
\* each of openai, anthropic and google, and the text of a provider without a
\* key is its mock response.
C23_EveryModelHasText ==
    output.called =>
        \A service \in Providers :
            /\ IsString(output.value.modelResponses[service])
            /\ input[service] = NoChain =>
                   output.value.modelResponses[service]
                       = getMockResponse(service, "no_api_key")

\* the error types of the mock table, and one that is not in it
ErrorTypes ==
    {"no_api_key", "quota_exceeded", "credit_error", "auth_error",
     "general_error", "unknown_error"}

\* the texts that getMockResponse returns for the service
MockTextsOf(service) ==
    {getMockResponse(service, errorType) : errorType \in ErrorTypes}

\* C29: every text that getMockResponse returns, for each service or an unknown
\* one and each error type or an unknown one, is left out by the filter on
\* "mock response"; a provider whose response is such a text is not in
\* sourcesUsed and is not counted in validModels.
C29_MockNeverCounted ==
    output.called =>
           /\ \A service \in Providers \cup {"unknown"} :
                  \A text \in MockTextsOf(service) : ~IsRealResponse(text)
           /\ \A service \in Providers :
                  output.value.modelResponses[service] \in MockTextsOf(service)
                      => service \notin Range(output.value.sourcesUsed)
           /\ output.value.synthesis.details.validModels
                  <= Cardinality({service \in Providers :
                                     /\ Truthy(output.value.modelResponses[service])
                                     /\ output.value.modelResponses[service]
                                            \notin MockTextsOf(service)})

\* the response of the greatest character count, the earliest of them in the
\* order of the providers
IsBase(validResponses, i) ==
    /\ \A j \in 1..Len(validResponses) :
           validResponses[j].length <= validResponses[i].length
    /\ \A j \in 1..(i - 1) :
           validResponses[j].length < validResponses[i].length

\* C24: the consensus answer begins with the full text of the valid response
\* that has the greatest character count, the earliest provider's among
\* responses of equal count.
C24_ConsensusBaseIsLongest ==
    output.called /\ output.value.approach = "consensus" =>
        LET validResponses == validResponsesOf(input)
        IN  \E i \in 1..Len(validResponses) :
                /\ IsBase(validResponses, i)
                /\ output.value.synthesizedAnswer[1]
                       = TextLine(Spaced(validResponses[i].text))

\* a consensus of two responses of the same character count and different
\* texts, the longest of three
C24_Witness ==
    /\ output.called
    /\ output.value.approach = "consensus"
    /\ LET validResponses == validResponsesOf(input)
       IN  /\ Len(validResponses) = 3
           /\ validResponses[1].length = validResponses[3].length
           /\ validResponses[1].text # validResponses[3].text
           /\ validResponses[2].length < validResponses[1].length
           /\ output.value.synthesizedAnswer[1]
                  = TextLine(Spaced(validResponses[1].text))

\* the sentences of the other responses that are no near-duplicate of a
\* sentence of the base, a near-duplicate having similarity 0.70 or more, each
\* tagged with its source
InsightsOf(validResponses, base) ==
    LET baseSentences == splitIntoSentences(validResponses[base].text)
        nearDuplicate(sentence) ==
            \E k \in 1..Len(baseSentences) :
                AtLeast(calculateTextSimilarity(WordsOf(sentence),
                                                WordsOf(baseSentences[k])),
                        7, 10)
        insightsOf(i) ==
            IF i = base THEN <<>>
            ELSE LET kept == SelectSeq(splitIntoSentences(validResponses[i].text),
                                       LAMBDA sentence : ~nearDuplicate(sentence))
                 IN  [k \in 1..Len(kept) |->
                         Detail(validResponses[i].source, kept[k])]
    IN  Concat([i \in 1..Len(validResponses) |-> insightsOf(i)])

\* C25: the additional insights of a consensus answer are the first 3, at
\* most, of the sentences of the valid responses other than the base that are
\* no near-duplicate (similarity 0.70 or more) of a base sentence, each tagged
\* with its provider; a sentence with similarity exactly 0.70 to a base
\* sentence is not among them.
C25_InsightsAreNotNearDuplicates ==
    output.called /\ output.value.approach = "consensus" =>
        LET validResponses == validResponsesOf(input)
        IN  \E base \in 1..Len(validResponses) :
                /\ IsBase(validResponses, base)
                /\ SelectSeq(output.value.synthesizedAnswer,
                             LAMBDA line : line.kind = "bullet")
                       = Bullets(Prefix(InsightsOf(validResponses, base), 3))

\* the two sentences are of different providers and more than 0.60 similar
Counterparts(a, b) ==
    /\ a.source # b.source
    /\ MoreThan(calculateTextSimilarity(WordsOf(a.text), WordsOf(b.text)), 6, 10)

\* the i-th smallest number of the set
Nth(S, i) == CHOOSE x \in S : Cardinality({y \in S : y < x}) = i - 1

\* the sets of sentences that the themes can have been taken from, in order
OriginsOf(allSentences, themes) ==
    {S \in SUBSET (1..Len(allSentences)) :
        /\ Cardinality(S) = Len(themes)
        /\ \A i \in 1..Len(themes) :
               Trim(allSentences[Nth(S, i)].text) = themes[i]}

Triggering(responses) ==
    SelectSeq(contrastPairs,
              LAMBDA pair :
                  /\ \E r \in 1..Len(responses) :
                         Includes(responses[r].text, pair[1])
                  /\ \E r \in 1..Len(responses) :
                         Includes(responses[r].text, pair[2]))

\* the providers named, with or without a comma, among the strings from..to
\* of a statement, provided nothing else is there
NamesIn(statement, from, to, responses) ==
    LET strings == {statement[i] : i \in from..to} \ {Space}
        named == {responses[r].source :
                      r \in {q \in 1..Len(responses) :
                                 \/ responses[q].source \in strings
                                 \/ (responses[q].source \o ",") \in strings}}
    IN  IF \A w \in strings : \E n \in named : w \in {n, n \o ","}
        THEN named ELSE {"?"}

\* the statement is about the pair and names on each side the providers of
\* the responses that have the keyword of that side
StatementOf(statement, pair, responses) ==
    \E k \in 1..(Len(statement) - 10) :
        /\ SubSeq(statement, k, k + 6)
               = Spaced(<<"lean", "towards", "\"" \o pair[1] \o "\"", "while">>)
        /\ SubSeq(statement, Len(statement) - 3, Len(statement))
               = <<Space>> \o Spaced(<<"suggest", "\"" \o pair[2] \o "\"">>)
        /\ NamesIn(statement, 1, k - 1, responses)
               = {responses[r].source :
                      r \in {q \in 1..Len(responses) :
                                 Includes(responses[q].text, pair[1])}}
        /\ NamesIn(statement, k + 7, Len(statement) - 4, responses)
               = {responses[r].source :
                      r \in {q \in 1..Len(responses) :
                                 Includes(responses[q].text, pair[2])}}

\* C27: findDisagreements gives one statement for each of the first two pairs
\* of contrastPairs, in the order of the table, that have the first keyword
\* in the lowercased text of some valid response and the second keyword in
\* that of some valid response, the same or another; a statement names the
\* providers of each side.
C27_DisagreementsAreFirstTriggeringPairs ==
    output.called =>
        LET responses == validResponsesOf(input)
            triggering == Triggering(responses)
            statements == output.value
        IN  /\ Len(statements) = IF Len(triggering) > 2 THEN 2
                                 ELSE Len(triggering)
            /\ \A i \in 1..Len(statements) :
                   StatementOf(statements[i], triggering[i], responses)

\* three pairs have both keywords in the responses, one of them in a single
\* word of one response
C27_Witness ==
    /\ output.called
    /\ Len(Triggering(validResponsesOf(input))) = 3
    /\ Len(output.value) = 2
    /\ input.google # Null
    /\ Includes(input.anthropic.words, "shouldn't")
    /\ ~Includes(input.openai.words, "should")
    /\ ~Includes(input.google.words, "should")

\* the numbers of the lines of an answer that are headings
HeadingLines(answer) ==
    SelectSeq([i \in 1..Len(answer) |-> i],
              LAMBDA i : answer[i].kind = "heading")

\* the sentences of a text that have an indicator and, as split, more than 30
\* and less than 200 characters
Qualifying(text) ==
    SelectSeq(splitIntoSentences(text),
              LAMBDA sentence :
                  /\ \E k \in 1..Len(Indicators) :
                         Includes(sentence, Indicators[k])
                  /\ SumLen(sentence) > 30
                  /\ SumLen(sentence) < 200)

\* what the section of a response lists
ListedFor(text) ==
    LET qualifying == Qualifying(text)
        sentences == splitIntoSentences(text)
    IN  IF qualifying # <<>>
        THEN [i \in 1..(IF Len(qualifying) > 3 THEN 3 ELSE Len(qualifying)) |->
                 Trim(qualifying[i])]
        ELSE IF sentences # <<>> THEN <<sentences[1]>>
        ELSE <<>>

C30_HistoryIsOfCurrentConversation ==
    ~loading =>
        /\ Find(currentConversationId) # <<>>
        /\ conversationHistory = Find(currentConversationId)[1].messages

====
